---- MODULE Spec2Model ----
(***************************************************************************)
(* Task lifecycle orchestration of the Phase V todo backend:               *)
(* TaskService (create/get/update/complete/delete) over the task store,    *)
(* the Dapr event publisher and the Dapr job scheduler, with the DaprClient *)
(* and the DatabaseConnection they run on, the readiness check and the     *)
(* shutdown of the application.                                            *)
(*                                                                         *)
(* Every request handler is an asyncio coroutine: the code between two     *)
(* awaits on the store or on the sidecar runs without interruption, so     *)
(* each action below is one such segment of one request.                   *)
(***************************************************************************)
EXTENDS Integers, Sequences, FiniteSets, TLC

VARIABLES
    tasks,        \* table "tasks": committed rows, a function id -> row
    tasktags,     \* table "tasktags": set of committed TaskTag rows
    nextId,       \* the sequence behind tasks.id
    now,          \* datetime.utcnow(), in minutes
    topics,       \* messages the sidecar accepted, per Kafka topic
    jobs,         \* jobs the sidecar holds, a function job id -> job
    req,          \* the request handlers in flight, one record per slot
    resp,         \* what the request that ended last gave its caller
    nops,         \* number of requests started so far
    committed,    \* history: every task row that was ever committed
    dapr_client,  \* the DaprClient of get_dapr_client()
    db            \* the DatabaseConnection "db" of api.db.connection

vars == <<tasks, tasktags, nextId, now, topics, jobs, req, resp, nops, committed,
          dapr_client, db>>

----------------------------------------------------------------------------
(* Bounds of the model *)

MaxOps == 2
MaxTime == 1
\* rows of the largest store list_tasks is run on
MaxRows == 102

----------------------------------------------------------------------------
(* Values *)

\* Python's Optional: None is the empty tuple, a present value v is <<v>>.
None == <<>>
Some(v) == <<v>>

Reqs == {"r1", "r2"}
Users == {"u1", "u2"}
MutatingOps == {"create", "update", "complete", "delete"}

\* Settings
kafka_topic_task_events == "task-events"
kafka_topic_reminders == "reminders"
kafka_topic_task_updates == "task-updates"
reminder_minutes_before == 30

\* TaskQueryParams.page_size: Field(default=20, ge=1, le=100)
page_size_default == 20
page_size_le == 100

Topics == {kafka_topic_task_events, kafka_topic_reminders, kafka_topic_task_updates}

\* A datetime an input carries, as an Optional: <<t>> is the naive datetime of
\* minute t, <<t, "utc">> the timezone-aware one (what pydantic parses from a
\* string with an offset such as "...Z").
Naive(t) == <<t>>
Aware(t) == <<t, "utc">>
IsAware(o) == Len(o) = 2

\* datetime.isoformat()
Isoformat(t) == <<"iso", t>>

OptIsoformat(o) == IF o = None THEN None ELSE Isoformat(o[1])

\* due_time.strftime("%Y-%m-%dT%H:%M:%SZ")
Strftime(t) == <<"YmdTHMSZ", t>>

\* f"reminder-task-{task_id}"
ReminderJobId(task_id) == <<"reminder-task-", task_id>>

----------------------------------------------------------------------------
(* Request inputs *)

\* TaskCreate with the schema defaults applied
BaseCreate ==
    [title |-> "a", description |-> None, due_date |-> None,
     priority |-> "medium", status |-> "pending", is_recurring |-> FALSE,
     recurring_pattern_id |-> None, tag_ids |-> None]

\* the create_task calls of the model: <<user_id, task_data>>
CreateCalls ==
    { <<"u1", [BaseCreate EXCEPT !.due_date = Some(2), !.priority = "high"]>>,
      <<"u1", [BaseCreate EXCEPT !.status = "completed"]>>,
      <<"u1", [BaseCreate EXCEPT !.tag_ids = Some(<<1>>)]>>,
      <<"u2", [BaseCreate EXCEPT !.due_date = Some(0)]>>,
      <<"u1", [BaseCreate EXCEPT !.due_date = Aware(0)]>> }

\* TaskUpdate: the domain of the function is the set of fields the caller set.
\* The update_task calls of the model: <<user_id, task_data>>
UpdateCalls ==
    { <<"u1", [title |-> Some("b"), due_date |-> None]>>,
      <<"u1", [status |-> Some("completed")]>>,
      <<"u1", [status |-> Some("pending"), due_date |-> Some(0)]>>,
      <<"u1", [tag_ids |-> Some(<<1, 2>>)]>>,
      <<"u2", [tag_ids |-> Some(<<>>)]>> }

\* columns of Task that are Optional[...]
OptionalFields == {"description", "due_date", "recurring_pattern_id", "completed_at"}

----------------------------------------------------------------------------
(* Errors *)

\* what a handler raises: the class of the exception and its details
Ok == [error |-> "none", task_id |-> None, field |-> None]
TaskNotFoundError(task_id) ==
    [error |-> "TaskNotFoundError", task_id |-> Some(task_id), field |-> None]
TaskValidationError(field) ==
    [error |-> "TaskValidationError", task_id |-> None, field |-> Some(field)]
\* an exception of the database driver or of the unit of work
StoreError == [error |-> "StoreError", task_id |-> None, field |-> None]
DaprError == [error |-> "DaprError", task_id |-> None, field |-> None]
\* the DaprError get_client raises when raise_for_status() meets an answer of
\* the sidecar with an error status, as against a sidecar that did not answer
DaprStatusError == [error |-> "DaprError", task_id |-> None, field |-> Some("status")]
\* a constraint of the schema rejects a row of the unit of work
IntegrityError == [error |-> "IntegrityError", task_id |-> None, field |-> None]
\* fastapi.HTTPException(status_code=...)
HTTPException(status_code) ==
    [error |-> "HTTPException", task_id |-> None, field |-> Some(status_code)]
\* httpx: "Cannot send a request, as the client has been closed."
RuntimeError == [error |-> "RuntimeError", task_id |-> None, field |-> None]
\* the use of a global name that the module does not bind
NameError(name) == [error |-> "NameError", task_id |-> None, field |-> Some(name)]
\* "<" between an offset-aware and an offset-naive datetime
TypeError == [error |-> "TypeError", task_id |-> None, field |-> None]

----------------------------------------------------------------------------
(* Models *)

\* Task(...) built without priority=..., which leaves the column default
NewTaskDefaultPriority(task_data, user_id, t) ==
    [id |-> None,
     user_id |-> user_id,
     title |-> task_data.title,
     description |-> task_data.description,
     due_date |-> task_data.due_date,
     completed_at |-> None,
     created_at |-> t,
     updated_at |-> t,
     priority |-> "medium",
     status |-> task_data.status,
     is_recurring |-> task_data.is_recurring,
     recurring_pattern_id |-> task_data.recurring_pattern_id]

\* Task(...) as create_task builds it
NewTask(task_data, user_id, t) ==
    [id |-> None,
     user_id |-> user_id,
     title |-> task_data.title,
     description |-> task_data.description,
     due_date |-> task_data.due_date,
     completed_at |-> None,
     created_at |-> t,
     updated_at |-> t,
     priority |-> task_data.priority,
     status |-> task_data.status,
     is_recurring |-> task_data.is_recurring,
     recurring_pattern_id |-> task_data.recurring_pattern_id]

\* TaskTag(task_id=..., tag_id=...): user_id of BaseModel is never given
NewTaskTag(task_id, tag_id) ==
    [task_id |-> task_id, tag_id |-> tag_id, user_id |-> None]

\* the NOT NULL constraint of BaseModel.user_id, on a TaskTag row
TaskTagUserIdNotNull(row) == row.user_id # None

\* foreign_key="tasks.id" of TaskTag.task_id, against the rows of "tasks"
TaskTagForeignKey(row, rows) == row.task_id \in DOMAIN rows

\* a table "tasktags" created without its constraints
TaskTagUnconstrained(row, rows) == TRUE

\* the constraints an INSERT into "tasktags" has to meet
TaskTagInsertable(row, rows) ==
    /\ TaskTagUserIdNotNull(row)
    /\ TaskTagForeignKey(row, rows)

\* TaskService._task_to_dict
TaskToDict(task) ==
    [id |-> task.id,
     title |-> task.title,
     description |-> task.description,
     due_date |-> OptIsoformat(task.due_date),
     priority |-> task.priority,
     status |-> task.status,
     is_recurring |-> task.is_recurring,
     user_id |-> task.user_id,
     created_at |-> Isoformat(task.created_at),
     updated_at |-> Isoformat(task.updated_at),
     completed_at |-> OptIsoformat(task.completed_at)]

----------------------------------------------------------------------------
(* TaskService helpers *)

\* get_task with the user_id condition dropped from the WHERE clause
GetTaskFoundAnyOwner(task_id, user_id) == task_id \in DOMAIN tasks

\* get_task: SELECT ... WHERE Task.id == task_id AND Task.user_id == user_id
GetTaskFound(task_id, user_id) ==
    /\ task_id \in DOMAIN tasks
    /\ tasks[task_id].user_id = user_id

\* task_data.model_dump(exclude_unset=True, exclude={"tag_ids"})
UpdateData(task_data) == DOMAIN task_data \ {"tag_ids"}

\* task_data.tag_ids: None when the caller did not set it
TagIdsOf(task_data) ==
    IF "tag_ids" \in DOMAIN task_data THEN task_data.tag_ids ELSE None

\* an update that takes a supplied value equal to the stored one for "no
\* value" and clears the Optional field
ApplyUpdateClearsSame(task, task_data) ==
    [f \in DOMAIN task |->
        IF f \in UpdateData(task_data) /\ task_data[f] # None
        THEN (IF f \in OptionalFields
              THEN (IF task_data[f] = task[f] THEN None ELSE task_data[f])
              ELSE task_data[f][1])
        ELSE task[f]]

\* an update that replaces the task: Optional fields the caller left unset
\* are cleared
ApplyUpdateClearsUnset(task, task_data) ==
    [f \in DOMAIN task |->
        IF f \in UpdateData(task_data) /\ task_data[f] # None
        THEN (IF f \in OptionalFields THEN task_data[f] ELSE task_data[f][1])
        ELSE IF f \in {"description", "due_date", "recurring_pattern_id"}
                /\ f \notin UpdateData(task_data)
        THEN None
        ELSE task[f]]

\* an update that hands the task over to another user
ApplyUpdateReassigns(task, task_data) ==
    [f \in DOMAIN task |->
        IF f = "user_id" THEN "u2"
        ELSE IF f \in UpdateData(task_data) /\ task_data[f] # None
        THEN (IF f \in OptionalFields THEN task_data[f] ELSE task_data[f][1])
        ELSE task[f]]

\* update_task: for field, value in update_data.items():
\*                  if value is not None: setattr(task, field, value)
ApplyUpdate(task, task_data) ==
    [f \in DOMAIN task |->
        IF f \in UpdateData(task_data) /\ task_data[f] # None
        THEN (IF f \in OptionalFields THEN task_data[f] ELSE task_data[f][1])
        ELSE task[f]]

\* a completion that keeps the completed_at of a task that already has one
ApplyCompleteOnce(task, t) ==
    [task EXCEPT !.status = "completed",
                 !.completed_at = IF @ = None THEN Some(t) ELSE @,
                 !.updated_at = t]

\* complete_task: status, completed_at and updated_at
ApplyComplete(task, t) ==
    [task EXCEPT !.status = "completed", !.completed_at = Some(t), !.updated_at = t]

\* _associate_tags: one TaskTag per element of tag_ids, added to the session
AssociateTags(task, tag_ids) ==
    { NewTaskTag(task.id, tag_ids[i]) : i \in DOMAIN tag_ids }

\* The UPDATE the unit of work emits at commit: the columns whose value differs
\* from the loaded one are written, the others keep the stored value.
FlushUpdate(row, obj, base) ==
    [f \in DOMAIN row |-> IF obj[f] # base[f] THEN obj[f] ELSE row[f]]

HasChanges(obj, base) == \E f \in DOMAIN obj : obj[f] # base[f]

----------------------------------------------------------------------------
(* DaprClient and DatabaseConnection *)

\* DaprClient.__init__: no httpx.AsyncClient yet. The clients a DaprClient
\* makes are numbered in the order of their making; `closed` holds the ones
\* aclose() was called on.
NewDaprClient == [_client |-> None, made |-> 0, closed |-> {}]

\* DaprClient.connect: "if self._client is None: self._client = AsyncClient()"
DaprConnect(c) ==
    IF c._client = None
    THEN [c EXCEPT !._client = Some(c.made + 1), !.made = @ + 1]
    ELSE c

\* a get_client that yields self._client as it finds it
GetClientAsIs(c) == c

\* DaprClient.get_client up to its yield: "if self._client is None: await
\* self.connect()". connect() awaits nothing, so no other coroutine runs
\* between the test and the yield.
GetClient(c) == IF c._client = None THEN DaprConnect(c) ELSE c

\* DatabaseConnection.__init__: no engine, no session maker. The engines
\* connect() makes are numbered; `disposed` holds the ones dispose() was
\* called on. async_session_maker is bound to async_engine and set with it.
\* `sessions` holds the sessions get_session has made, in the order of their
\* making.
NewDatabaseConnection ==
    [async_engine |-> None, _initialized |-> FALSE, made |-> 0, disposed |-> {},
     sessions |-> <<>>]

\* self.async_session_maker(): a session on the engine the maker is bound to,
\* with a transaction that is neither committed nor rolled back
NewSession(d) ==
    [engine |-> d.async_engine[1], committed |-> FALSE, rolled_back |-> FALSE,
     closed |-> FALSE]

\* the exception that cancels a coroutine: a BaseException, no Exception
CancelledError == [error |-> "CancelledError", task_id |-> None, field |-> None]

\* DatabaseConnection.connect: "if self._initialized: return", else a new
\* engine and its session maker
DbConnect(d) ==
    IF d._initialized
    THEN d
    ELSE [d EXCEPT !.async_engine = Some(d.made + 1), !.made = @ + 1,
                   !._initialized = TRUE]

----------------------------------------------------------------------------
(* Event publisher *)

\* an envelope whose event_type and timestamp win over keys of the payload
EnvelopeMetadataWins(event_type, data, t) ==
    [event_type |-> event_type, timestamp |-> <<Isoformat(t), "Z">>] @@ data

\* EventPublisher.publish: {"event_type", "timestamp", **data}; a key of data
\* that is named event_type or timestamp replaces the entry before it
Envelope(event_type, data, t) ==
    data @@ [event_type |-> event_type, timestamp |-> <<Isoformat(t), "Z">>]

\* publish_task_event sending to the topic of publish_task_update_event
PublishTaskEventToUpdates(event_type, task_data, user_id, t) ==
    [topic |-> kafka_topic_task_updates,
     data |-> Envelope(event_type,
                       [task_id |-> task_data.id,
                        task_data |-> task_data,
                        user_id |-> user_id], t)]

\* EventPublisher.publish_task_event: the topic and the envelope it publishes
PublishTaskEvent(event_type, task_data, user_id, t) ==
    [topic |-> kafka_topic_task_events,
     data |-> Envelope(event_type,
                       [task_id |-> task_data.id,
                        task_data |-> task_data,
                        user_id |-> user_id], t)]

\* DaprClient.publish accepted by the sidecar
DaprPublish(tp, msg) == [tp EXCEPT ![msg.topic] = Append(@, msg.data)]

\* the publish_event calls of the model: <<topic, event_type, data>>
PublishCalls ==
    { <<kafka_topic_task_events, "created", [task_id |-> 1, user_id |-> "u1"]>>,
      <<kafka_topic_task_updates, "updated", [task_id |-> 1, event_type |-> "deleted"]>>,
      <<kafka_topic_task_events, "completed", [task_id |-> 2, event_type |-> "completed"]>>,
      <<kafka_topic_reminders, "reminder.due",
        [task_id |-> 1, timestamp |-> <<Isoformat(0), "+00:00">>]>>,
      <<kafka_topic_reminders, "reminder.due", [task_id |-> 2]>> }

\* publish_event(topic, event_type, data), that is EventPublisher.publish: the
\* envelope is built and posted once; the sidecar accepts it, or the call
\* raises DaprError.
PublishEvent(topic, event_type, data) ==
    /\ nops < MaxOps
    /\ nops' = nops + 1
    /\ \E daprOk \in BOOLEAN :
          /\ topics' = IF daprOk
                       THEN DaprPublish(topics,
                                [topic |-> topic,
                                 data |-> Envelope(event_type, data, now)])
                       ELSE topics
          /\ resp' = [op |-> "publish_event", user |-> "u1", tid |-> 0,
                      inp |-> <<topic, event_type, data>>,
                      result |-> IF daprOk THEN Ok ELSE DaprError,
                      ret |-> <<>>]
    /\ dapr_client' = GetClient(dapr_client)
    /\ UNCHANGED <<tasks, tasktags, nextId, now, jobs, req, committed, db>>

\* event type published by each lifecycle operation
EventTypeOf(op) ==
    CASE op = "create" -> "created"
      [] op = "update" -> "updated"
      [] op = "complete" -> "completed"
      [] op = "delete" -> "deleted"

\* publish_task_event called ahead of "await self.db.commit()"
ReadyToPublishBeforeCommit(q) == q.pc \in {"flushed", "fetched", "refreshed"}

\* Where create_task, update_task and complete_task call publish_task_event:
\* after "await self.db.commit()" and "await self.db.refresh(task)".
ReadyToPublish(q) == q.pc = "refreshed"

----------------------------------------------------------------------------
(* State *)

IdleReq ==
    [pc |-> "idle", op |-> "none", user |-> "u1", tid |-> 0, inp |-> <<>>,
     obj |-> <<>>, base |-> <<>>, snap |-> <<>>, del |-> {}, add |-> {}]

\* what a handler gives its caller: the exception it raises, or Ok with the
\* Task it returns (delete_task returns nothing)
Reply(q, result) ==
    [op |-> q.op, user |-> q.user, tid |-> q.tid, inp |-> q.inp,
     result |-> result,
     ret |-> IF result = Ok /\ q.op # "delete" THEN q.obj ELSE <<>>]

\* the empty database, no message published, no job scheduled, no request
Init ==
    /\ tasks = <<>>
    /\ tasktags = {}
    /\ nextId = 1
    /\ now = 0
    /\ topics = [t \in Topics |-> <<>>]
    /\ jobs = <<>>
    /\ req = [r \in Reqs |-> IdleReq]
    /\ resp = Reply(IdleReq, Ok)
    /\ nops = 0
    /\ committed = {}
    /\ dapr_client = NewDaprClient
    /\ db = NewDatabaseConnection

\* a request that begins: what the handler was called with
Begin(op, user, tid, inp) ==
    [IdleReq EXCEPT !.op = op, !.user = user, !.tid = tid, !.inp = inp]

\* A free handler slot. The slots are interchangeable, so a request takes
\* "r2" only while "r1" is busy.
CanStart(r) ==
    /\ req[r].pc = "idle"
    /\ nops < MaxOps
    /\ r = "r1" \/ req["r1"].pc # "idle"

\* the handler in slot r ends: it returns or raises `result`
Finish(r, q, result) ==
    /\ req' = [req EXCEPT ![r] = IdleReq]
    /\ resp' = Reply(q, result)

\* the handler in slot r goes on as q
Continue(r, q) ==
    /\ req' = [req EXCEPT ![r] = q]
    /\ UNCHANGED resp

----------------------------------------------------------------------------
(* The clock *)

Tick ==
    /\ now < MaxTime
    /\ now' = now + 1
    /\ UNCHANGED <<tasks, tasktags, nextId, topics, jobs, req, resp, nops, committed, dapr_client, db>>

----------------------------------------------------------------------------
(* create_task *)

\* create_task up to "await self.db.flush()": validation, Task(...), add, and
\* the INSERT inside the still open transaction, which draws the id. The
\* validation compares due_date with datetime.utcnow(), which is naive: an
\* aware due_date makes "<" raise TypeError.
CreateValidateAndFlush(r, user_id, task_data) ==
    /\ CanStart(r)
    /\ nops' = nops + 1
    /\ IF task_data.due_date # None /\ IsAware(task_data.due_date)
       THEN /\ Finish(r, Begin("create", user_id, 0, task_data), TypeError)
            /\ UNCHANGED nextId
       ELSE IF task_data.due_date # None /\ task_data.due_date[1] < now
       THEN /\ Finish(r, Begin("create", user_id, 0, task_data),
                      TaskValidationError("due_date"))
            /\ UNCHANGED nextId
       ELSE /\ Continue(r, [Begin("create", user_id, nextId, task_data) EXCEPT
                              !.pc = "flushed",
                              !.obj = [NewTask(task_data, user_id, now) EXCEPT
                                          !.id = nextId]])
            /\ nextId' = nextId + 1
    /\ UNCHANGED <<tasks, tasktags, now, topics, jobs, committed, dapr_client, db>>

\* a rollback that leaves the flushed INSERT of the task in the table
RollbackKeepsFlushed(r) ==
    IF req[r].op = "create" THEN tasks @@ (req[r].obj.id :> req[r].obj) ELSE tasks

\* get_session: "except Exception: await session.rollback()" when the commit
\* of the handler in slot r fails: what the transaction flushed is undone, the
\* table "tasks" is as it was.
RollbackBeforeCommit(r) == tasks

\* create_task from the refresh after flush to "await self.db.commit()":
\* tags are associated when tag_ids is a non-empty list, then the transaction
\* commits the task and the TaskTag rows together; a row a constraint rejects
\* raises IntegrityError, and a failing commit leaves nothing behind.
CreateCommit(r) ==
    LET q == req[r]
        tag_ids == q.inp.tag_ids
        pending == IF tag_ids # None /\ Len(tag_ids[1]) > 0
                   THEN AssociateTags(q.obj, tag_ids[1]) ELSE {}
        rows == tasks @@ (q.obj.id :> q.obj)
    IN  /\ q.pc = "flushed"
        /\ \E storeOk \in BOOLEAN :
              IF ~storeOk
              THEN /\ Finish(r, q, StoreError)
                   /\ tasks' = RollbackBeforeCommit(r)
                   /\ UNCHANGED <<tasktags, committed>>
              ELSE IF \/ \E tt \in pending : ~TaskTagInsertable(tt, rows)
                      \/ pending # {} /\ Cardinality(pending) # Len(tag_ids[1])
              THEN /\ Finish(r, q, IntegrityError)
                   /\ tasks' = RollbackBeforeCommit(r)
                   /\ UNCHANGED <<tasktags, committed>>
              ELSE /\ tasks' = rows
                   /\ tasktags' = tasktags \cup pending
                   /\ committed' = committed \cup {q.obj}
                   /\ Continue(r, [q EXCEPT !.pc = "committed"])
        /\ UNCHANGED <<nextId, now, topics, jobs, nops, dapr_client, db>>

----------------------------------------------------------------------------
(* get_task *)

\* get_task as an operation of its own: the row, or TaskNotFoundError
GetTask(r, user_id, task_id) ==
    /\ CanStart(r)
    /\ nops' = nops + 1
    /\ IF GetTaskFound(task_id, user_id)
       THEN Finish(r, [Begin("get", user_id, task_id, <<>>) EXCEPT
                          !.obj = tasks[task_id]], Ok)
       ELSE Finish(r, Begin("get", user_id, task_id, <<>>),
                   TaskNotFoundError(task_id))
    /\ UNCHANGED <<tasks, tasktags, nextId, now, topics, jobs, committed, dapr_client, db>>

----------------------------------------------------------------------------
(* update_task *)

\* an update_task that validates due_date the way create_task does
UpdateFetchValidates(r, user_id, task_id, task_data) ==
    /\ CanStart(r)
    /\ nops' = nops + 1
    /\ IF ~GetTaskFound(task_id, user_id)
       THEN Finish(r, Begin("update", user_id, task_id, task_data),
                   TaskNotFoundError(task_id))
       ELSE IF /\ "due_date" \in DOMAIN task_data
               /\ task_data.due_date # None
               /\ task_data.due_date[1] < now
       THEN Finish(r, Begin("update", user_id, task_id, task_data),
                   TaskValidationError("due_date"))
       ELSE LET task == ApplyUpdate(tasks[task_id], task_data) IN
            Continue(r, [Begin("update", user_id, task_id, task_data) EXCEPT
                           !.base = tasks[task_id],
                           !.obj = IF TagIdsOf(task_data) = None
                                   THEN [task EXCEPT !.updated_at = now]
                                   ELSE task,
                           !.pc = IF TagIdsOf(task_data) = None
                                  THEN "fetched" ELSE "tagsel"])
    /\ UNCHANGED <<tasks, tasktags, nextId, now, topics, jobs, committed, dapr_client, db>>

\* update_task up to its next await: get_task, then the setattr loop; without
\* a tag list updated_at is stamped here, with one the handler next awaits the
\* SELECT of the existing TaskTag rows.
UpdateFetch(r, user_id, task_id, task_data) ==
    /\ CanStart(r)
    /\ nops' = nops + 1
    /\ IF ~GetTaskFound(task_id, user_id)
       THEN Finish(r, Begin("update", user_id, task_id, task_data),
                   TaskNotFoundError(task_id))
       ELSE LET task == ApplyUpdate(tasks[task_id], task_data) IN
            Continue(r, [Begin("update", user_id, task_id, task_data) EXCEPT
                           !.base = tasks[task_id],
                           !.obj = IF TagIdsOf(task_data) = None
                                   THEN [task EXCEPT !.updated_at = now]
                                   ELSE task,
                           !.pc = IF TagIdsOf(task_data) = None
                                  THEN "fetched" ELSE "tagsel"])
    /\ UNCHANGED <<tasks, tasktags, nextId, now, topics, jobs, committed, dapr_client, db>>

\* _update_tags: the existing TaskTag rows of the task are marked deleted,
\* the new ones added to the session; then updated_at is stamped.
UpdateTags(r) ==
    LET q == req[r] IN
    /\ q.pc = "tagsel"
    /\ Continue(r, [q EXCEPT !.del = {tt \in tasktags : tt.task_id = q.obj.id},
                             !.add = AssociateTags(q.obj, TagIdsOf(q.inp)[1]),
                             !.obj = [q.obj EXCEPT !.updated_at = now],
                             !.pc = "fetched"])
    /\ UNCHANGED <<tasks, tasktags, nextId, now, topics, jobs, nops, committed, dapr_client, db>>

----------------------------------------------------------------------------
(* complete_task *)

\* complete_task up to its commit: get_task, then status, completed_at and
\* updated_at are set on the loaded object.
CompleteFetch(r, user_id, task_id) ==
    /\ CanStart(r)
    /\ nops' = nops + 1
    /\ IF ~GetTaskFound(task_id, user_id)
       THEN Finish(r, Begin("complete", user_id, task_id, <<>>),
                   TaskNotFoundError(task_id))
       ELSE Continue(r, [Begin("complete", user_id, task_id, <<>>) EXCEPT
                           !.base = tasks[task_id],
                           !.obj = ApplyComplete(tasks[task_id], now),
                           !.pc = "fetched"])
    /\ UNCHANGED <<tasks, tasktags, nextId, now, topics, jobs, committed, dapr_client, db>>

----------------------------------------------------------------------------
(* commit, refresh and publish of update_task and complete_task *)

\* "await self.db.commit()": the changed columns are written to the row (an
\* UPDATE that matches no row raises StaleDataError), the TaskTag rows marked
\* deleted are removed and the added ones inserted under the NOT NULL,
\* foreign-key and primary-key constraints, whose violation raises
\* IntegrityError. A failing commit changes nothing.
CommitChanges(r) ==
    LET q == req[r]
        id == q.obj.id
        stale == HasChanges(q.obj, q.base) /\ id \notin DOMAIN tasks
        kept == tasktags \ q.del
        inserts == /\ \A tt \in q.add : TaskTagInsertable(tt, tasks)
                   /\ q.add \cap kept = {}
                   /\ q.add # {} => Cardinality(q.add) = Len(TagIdsOf(q.inp)[1])
    IN  /\ q.pc = "fetched"
        /\ q.op \in {"update", "complete"}
        /\ \E storeOk \in BOOLEAN :
              IF storeOk /\ ~stale /\ inserts
              THEN /\ tasks' = IF HasChanges(q.obj, q.base)
                               THEN [tasks EXCEPT ![id] = FlushUpdate(@, q.obj, q.base)]
                               ELSE tasks
                   /\ tasktags' = kept \cup q.add
                   /\ committed' = committed \cup
                         {tasks'[i] : i \in DOMAIN tasks' \cap {id}}
                   /\ Continue(r, [q EXCEPT !.pc = "committed"])
              ELSE /\ Finish(r, q, IF storeOk /\ ~stale THEN IntegrityError
                                                         ELSE StoreError)
                   /\ tasks' = RollbackBeforeCommit(r)
                   /\ UNCHANGED <<tasktags, committed>>
        /\ UNCHANGED <<nextId, now, topics, jobs, nops, dapr_client, db>>

\* a rollback that compensates: the row goes back to what the handler loaded
RollbackRestoresLoaded(r) ==
    IF req[r].op = "create"
    THEN [i \in DOMAIN tasks \ {req[r].obj.id} |-> tasks[i]]
    ELSE (req[r].base.id :> req[r].base) @@
            [i \in DOMAIN tasks \ {req[r].base.id} |-> tasks[i]]

\* get_session: "except Exception: await session.rollback()" when the handler
\* in slot r raises after its own commit: the session holds nothing
\* uncommitted, so the table "tasks" stays as committed.
RollbackAfterCommit(r) == tasks

\* a refresh that keeps the attributes the session already holds
NotReloaded(q) == q.obj

\* session.refresh(task): the attributes of the object as its row holds them
Reloaded(q) == tasks[q.obj.id]

\* "await self.db.refresh(task)" after the commit of create, update and
\* complete: the object is reloaded from its row; a row that is gone raises.
Refresh(r) ==
    LET q == req[r] IN
    /\ q.pc = "committed"
    /\ q.op \in {"create", "update", "complete"}
    /\ \E storeOk \in BOOLEAN :
          IF storeOk /\ q.obj.id \in DOMAIN tasks
          THEN Continue(r, [q EXCEPT !.obj = Reloaded(q), !.pc = "refreshed"])
          ELSE Finish(r, q, StoreError)
    /\ UNCHANGED <<tasks, tasktags, nextId, now, topics, jobs, nops, committed, dapr_client, db>>

\* a wrapper that catches the failure of a call to the sidecar and puts the
\* call again
GatewayFailureRetried(r, q, error) == Continue(r, [q EXCEPT !.pc = "retry"])

\* A call to the sidecar fails: neither DaprClient nor EventPublisher,
\* JobScheduler or TaskService catches the DaprError, so it ends the handler.
GatewayFailure(r, q, error) == Finish(r, q, error)

\* a publish that, for complete_task, also cancels the reminder job of the task
PublishCancelsReminder(r) ==
    LET q == req[r]
        msg == PublishTaskEvent(EventTypeOf(q.op), TaskToDict(q.obj), q.user, now)
    IN  /\ q.op \in {"create", "update", "complete"}
        /\ ReadyToPublish(q)
        /\ \E daprOk \in BOOLEAN :
              IF daprOk
              THEN /\ topics' = DaprPublish(topics, msg)
                   /\ jobs' = IF q.op = "complete"
                              THEN [j \in DOMAIN jobs \ {<<"reminder-task-", q.tid>>} |->
                                      jobs[j]]
                              ELSE jobs
                   /\ Finish(r, q, Ok)
                   /\ UNCHANGED <<tasks, tasktags>>
              ELSE /\ GatewayFailure(r, q, DaprError)
                   /\ tasks' = RollbackAfterCommit(r)
                   /\ UNCHANGED <<tasktags, topics, jobs>>
        /\ dapr_client' = GetClient(dapr_client)
        /\ UNCHANGED <<nextId, now, nops, committed, db>>

\* publish_task_event(...) and the return of create, update and complete:
\* the sidecar accepts the message, or the call raises DaprError, which
\* reaches the caller through get_session's rollback.
Publish(r) ==
    LET q == req[r]
        msg == PublishTaskEvent(EventTypeOf(q.op), TaskToDict(q.obj), q.user, now)
    IN  /\ q.op \in {"create", "update", "complete"}
        /\ ReadyToPublish(q)
        /\ \E daprOk \in BOOLEAN :
              IF daprOk
              THEN /\ topics' = DaprPublish(topics, msg)
                   /\ Finish(r, q, Ok)
                   /\ UNCHANGED <<tasks, tasktags>>
              ELSE /\ GatewayFailure(r, q, DaprError)
                   /\ tasks' = RollbackAfterCommit(r)
                   /\ UNCHANGED <<tasktags, topics>>
        /\ dapr_client' = GetClient(dapr_client)
        /\ UNCHANGED <<nextId, now, jobs, nops, committed, db>>

----------------------------------------------------------------------------
(* delete_task *)

\* a snapshot that keeps the id alone
DeleteSnapshotIdOnly(task) == [id |-> task.id]

\* delete_task: task_data = self._task_to_dict(task), before the delete
DeleteSnapshot(task) == TaskToDict(task)

\* delete_task up to its commit: get_task, the snapshot for the event, and
\* the row marked deleted in the session.
DeleteFetch(r, user_id, task_id) ==
    /\ CanStart(r)
    /\ nops' = nops + 1
    /\ IF ~GetTaskFound(task_id, user_id)
       THEN Finish(r, Begin("delete", user_id, task_id, <<>>),
                   TaskNotFoundError(task_id))
       ELSE Continue(r, [Begin("delete", user_id, task_id, <<>>) EXCEPT
                           !.base = tasks[task_id],
                           !.obj = tasks[task_id],
                           !.snap = DeleteSnapshot(tasks[task_id]),
                           !.pc = "fetched"])
    /\ UNCHANGED <<tasks, tasktags, nextId, now, topics, jobs, committed, dapr_client, db>>

\* a delete that leaves the row in the table (a soft delete)
DeleteCommitSoft(r) ==
    LET q == req[r] IN
    /\ q.pc = "fetched"
    /\ q.op = "delete"
    /\ \E storeOk \in BOOLEAN :
          IF storeOk
          THEN Continue(r, [q EXCEPT !.pc = "committed"])
          ELSE Finish(r, q, StoreError)
    /\ UNCHANGED <<tasks, tasktags, nextId, now, topics, jobs, nops, committed, dapr_client, db>>

\* "await self.db.commit()" of delete_task: the DELETE of the row (a DELETE
\* that matches no row only warns). Task.tags has no delete cascade, so
\* TaskTag rows of the task make the unit of work fail.
DeleteCommit(r) ==
    LET q == req[r]
        id == q.obj.id
        children == {tt \in tasktags : tt.task_id = id}
    IN  /\ q.pc = "fetched"
        /\ q.op = "delete"
        /\ \E storeOk \in BOOLEAN :
              IF storeOk /\ children = {}
              THEN /\ tasks' = [i \in DOMAIN tasks \ {id} |-> tasks[i]]
                   /\ Continue(r, [q EXCEPT !.pc = "committed"])
              ELSE /\ Finish(r, q, StoreError)
                   /\ UNCHANGED tasks
        /\ UNCHANGED <<tasktags, nextId, now, topics, jobs, nops, committed, dapr_client, db>>

\* publish_task_event("deleted", task_data, user_id) with the snapshot
DeletePublish(r) ==
    LET q == req[r]
        msg == PublishTaskEvent(EventTypeOf(q.op), q.snap, q.user, now)
    IN  /\ q.pc = "committed"
        /\ q.op = "delete"
        /\ \E daprOk \in BOOLEAN :
              IF daprOk
              THEN /\ topics' = DaprPublish(topics, msg)
                   /\ Finish(r, q, Ok)
                   /\ UNCHANGED <<tasks, tasktags>>
              ELSE /\ GatewayFailure(r, q, DaprError)
                   /\ tasks' = RollbackAfterCommit(r)
                   /\ UNCHANGED <<tasktags, topics>>
        /\ dapr_client' = GetClient(dapr_client)
        /\ UNCHANGED <<nextId, now, jobs, nops, committed, db>>

----------------------------------------------------------------------------
(* list_tasks *)

\* TaskQueryParams with the schema defaults applied
QueryDefaults ==
    [q |-> None, priority |-> None, status |-> None, tag_id |-> None,
     is_recurring |-> None, due_date_from |-> None, due_date_to |-> None,
     sort_by |-> "due_date", sort_order |-> "asc",
     page |-> 1, page_size |-> page_size_default]

\* the list_tasks calls of the model: <<user_id, query_params>>, query_params
\* an Optional
ListCalls ==
    { <<"u1", None>>,
      <<"u2", None>>,
      <<"u1", Some(QueryDefaults)>>,
      <<"u1", Some([QueryDefaults EXCEPT !.priority = Some("high"),
                       !.sort_by = "title", !.sort_order = "desc",
                       !.page_size = 1])>>,
      <<"u1", Some([QueryDefaults EXCEPT !.status = Some("pending"),
                       !.page = 2, !.page_size = 1])>>,
      <<"u1", Some([QueryDefaults EXCEPT !.is_recurring = Some(FALSE),
                       !.sort_by = "created_at", !.page_size = 2])>>,
      <<"u1", Some([QueryDefaults EXCEPT !.due_date_from = Some(1),
                       !.due_date_to = Some(2), !.sort_order = "desc"])>>,
      <<"u1", Some([QueryDefaults EXCEPT !.q = Some("B"),
                       !.sort_by = "priority", !.sort_order = "desc"])>>,
      <<"u1", Some([QueryDefaults EXCEPT !.q = Some("")])>>,
      <<"u1", Some([QueryDefaults EXCEPT !.page_size = page_size_le])>>,
      <<"u1", Some([QueryDefaults EXCEPT !.page = 2, !.page_size = page_size_le])>>,
      <<"u1", Some([QueryDefaults EXCEPT !.tag_id = Some(1), !.page = 3])>>,
      <<"u2", Some([QueryDefaults EXCEPT !.page_size = 2])>> }

\* the texts of the model have one letter: lower case of a text
Lower(text) ==
    CASE text = "A" -> "a"
      [] text = "B" -> "b"
      [] OTHER -> text

\* column.ilike(f"%{q}%") on a text that is not NULL
Ilike(text, q) == Lower(text) = Lower(q)

\* the conditions list_tasks builds from query_params, on one row; a
\* comparison with a NULL due_date or description selects nothing
Conditions(task, p) ==
    /\ p.priority # None => task.priority = p.priority[1]
    /\ p.status # None => task.status = p.status[1]
    /\ p.is_recurring # None => task.is_recurring = p.is_recurring[1]
    /\ p.due_date_from # None =>
          task.due_date # None /\ task.due_date[1] >= p.due_date_from[1]
    /\ p.due_date_to # None =>
          task.due_date # None /\ task.due_date[1] <= p.due_date_to[1]
    /\ (p.q # None /\ p.q[1] # "") =>
          \/ Ilike(task.title, p.q[1])
          \/ task.description # None /\ Ilike(task.description[1], p.q[1])

\* a statement without "where(Task.user_id == user_id)"
SelectedOfAnyOwner(user_id, query_params) ==
    {i \in DOMAIN tasks :
        query_params # None => Conditions(tasks[i], query_params[1])}

\* select(Task).where(Task.user_id == user_id).where(and_(*conditions)): the
\* ids of the rows the statement selects
Selected(user_id, query_params) ==
    {i \in DOMAIN tasks :
        /\ tasks[i].user_id = user_id
        /\ query_params # None => Conditions(tasks[i], query_params[1])}

\* getattr(Task, query_params.sort_by.value if query_params else "due_date")
SortBy(query_params) ==
    IF query_params # None THEN query_params[1].sort_by ELSE "due_date"

\* query_params and query_params.sort_order.value == "desc"
Descending(query_params) ==
    query_params # None /\ query_params[1].sort_order = "desc"

\* The place of a row's value in the ascending order of a column: NULL comes
\* last, an enum sorts in the order of its declaration, a text by its letter.
SortKey(task, sort_by) ==
    CASE sort_by = "due_date" ->
            IF task.due_date = None THEN MaxTime + 10 ELSE task.due_date[1]
      [] sort_by = "created_at" -> task.created_at
      [] sort_by = "priority" ->
            (CASE task.priority = "high" -> 1
               [] task.priority = "medium" -> 2
               [] task.priority = "low" -> 3)
      [] sort_by = "title" -> IF task.title = "a" THEN 1 ELSE 2

\* row a comes before row b in "ORDER BY <column> [DESC]"
OrderedBefore(a, b, query_params) ==
    IF Descending(query_params)
    THEN SortKey(a, SortBy(query_params)) > SortKey(b, SortBy(query_params))
    ELSE SortKey(a, SortBy(query_params)) < SortKey(b, SortBy(query_params))

\* the largest value of SortKey
MaxKey == MaxTime + 10

RECURSIVE InIdOrder(_, _, _, _)
\* the rows with an id in `ids` between lo and hi, by ascending or by
\* descending id
InIdOrder(ids, lo, hi, ties) ==
    IF lo > hi THEN <<>>
    ELSE IF lo = hi THEN (IF lo \in ids THEN <<tasks[lo]>> ELSE <<>>)
    ELSE LET mid == (lo + hi) \div 2 IN
         IF ties = "asc"
         THEN InIdOrder(ids, lo, mid, ties) \o InIdOrder(ids, mid + 1, hi, ties)
         ELSE InIdOrder(ids, mid + 1, hi, ties) \o InIdOrder(ids, lo, mid, ties)

RECURSIVE InKeyOrder(_, _, _, _)
\* the rows with an id in `ids` whose SortKey is k or comes after k in the order
\* of the statement; rows of one SortKey by ascending or by descending id
InKeyOrder(ids, query_params, ties, k) ==
    IF k < 0 \/ k > MaxKey
    THEN <<>>
    ELSE InIdOrder({i \in ids : SortKey(tasks[i], SortBy(query_params)) = k},
                   1, nextId - 1, ties)
         \o InKeyOrder(ids, query_params, ties,
                       IF Descending(query_params) THEN k - 1 ELSE k + 1)

\* statement.order_by(sort_column) over the selected rows. The statement
\* orders by one column: the order of rows that are equal in it is the
\* database's choice, here by ascending or by descending id (`ties`).
OrderBy(ids, query_params, ties) ==
    InKeyOrder(ids, query_params, ties,
               IF Descending(query_params) THEN MaxKey ELSE 0)

\* "if query_params: statement = statement.offset(offset).limit(page_size)":
\* without query_params the statement has neither
OffsetLimit(rows, query_params) ==
    IF query_params = None
    THEN rows
    ELSE LET offset == (query_params[1].page - 1) * query_params[1].page_size
             last == IF offset + query_params[1].page_size < Len(rows)
                     THEN offset + query_params[1].page_size ELSE Len(rows)
         IN  SubSeq(rows, offset + 1, last)

\* list_tasks: one SELECT, which changes nothing; the rows it returns, or the
\* error of the store
ListTasks(r, user_id, query_params) ==
    /\ CanStart(r)
    /\ nops' = nops + 1
    /\ \E storeOk \in BOOLEAN, ties \in {"asc", "desc"} :
          IF storeOk
          THEN Finish(r, [Begin("list", user_id, 0, query_params) EXCEPT
                             !.obj = OffsetLimit(
                                        OrderBy(Selected(user_id, query_params),
                                                query_params, ties),
                                        query_params)], Ok)
          ELSE Finish(r, Begin("list", user_id, 0, query_params), StoreError)
    /\ UNCHANGED <<tasks, tasktags, nextId, now, topics, jobs, committed, dapr_client, db>>

----------------------------------------------------------------------------
(* Job scheduler *)

\* the schedule_reminder calls of the model: <<remind_at, user_id, title>>
ReminderCalls ==
    { <<2 - reminder_minutes_before, "u1", "a">>,
      <<0 - reminder_minutes_before, "u2", "a">> }

\* a job id made of the task id and the time of the reminder
ReminderJobPerTime(task_id, remind_at, user_id, title) ==
    [job_id |-> <<"reminder-task-", task_id, remind_at>>,
     dueTime |-> Strftime(remind_at),
     data |-> [task_id |-> task_id, user_id |-> user_id, title |-> title,
               type |-> "reminder"]]

\* JobScheduler.schedule_reminder: the job id and the body schedule_job posts
ReminderJob(task_id, remind_at, user_id, title) ==
    [job_id |-> ReminderJobId(task_id),
     dueTime |-> Strftime(remind_at),
     data |-> [task_id |-> task_id, user_id |-> user_id, title |-> title,
               type |-> "reminder"]]

\* DaprClient.schedule_job accepted by the sidecar: POST /jobs/<job_id>
ScheduleJob(js, job) ==
    (job.job_id :> [dueTime |-> job.dueTime, data |-> job.data]) @@ js

\* a sidecar that accepts DELETE /jobs/<job_id> and keeps the job
CancelJobKeeps(js, job_id) == js

\* DaprClient.cancel_job accepted by the sidecar: DELETE /jobs/<job_id>
CancelJob(js, job_id) == [j \in DOMAIN js \ {job_id} |-> js[j]]

\* What comes of DELETE /jobs/<job_id>: the sidecar accepts it ("ok") or does
\* not answer ("unreachable"); for a job it does not hold, whether it accepts
\* or answers with an error status ("status") is the sidecar's choice, and
\* cancel_job raises on every error status.
CancelAnswers(js, job_id) ==
    IF job_id \in DOMAIN js THEN {"ok", "unreachable"}
                            ELSE {"ok", "status", "unreachable"}

\* what cancel_job gives its caller for an answer of the sidecar
CancelResult(answer) ==
    CASE answer = "ok" -> Ok
      [] answer = "status" -> DaprStatusError
      [] answer = "unreachable" -> DaprError

\* schedule_reminder(task_id, remind_at, user_id, title): one POST /jobs/<id>;
\* the sidecar stores the job, or the call raises DaprError.
ScheduleReminder(task_id, remind_at, user_id, title) ==
    LET job == ReminderJob(task_id, remind_at, user_id, title) IN
    /\ nops < MaxOps
    /\ nops' = nops + 1
    /\ \E daprOk \in BOOLEAN :
          /\ jobs' = IF daprOk THEN ScheduleJob(jobs, job) ELSE jobs
          /\ resp' = [op |-> "schedule_reminder", user |-> user_id, tid |-> task_id,
                      inp |-> <<remind_at, user_id, title>>,
                      result |-> IF daprOk THEN Ok ELSE DaprError,
                      ret |-> IF daprOk THEN job.job_id ELSE <<>>]
    /\ dapr_client' = GetClient(dapr_client)
    /\ UNCHANGED <<tasks, tasktags, nextId, now, topics, req, committed, db>>

\* cancel_reminder(task_id): one DELETE /jobs/<id>; the sidecar drops the job,
\* or the call raises DaprError.
CancelReminder(task_id) ==
    /\ nops < MaxOps
    /\ nops' = nops + 1
    /\ \E answer \in CancelAnswers(jobs, ReminderJobId(task_id)) :
          /\ jobs' = IF answer = "ok"
                     THEN CancelJob(jobs, ReminderJobId(task_id))
                     ELSE jobs
          /\ resp' = [op |-> "cancel_reminder", user |-> "u1", tid |-> task_id,
                      inp |-> <<>>,
                      result |-> CancelResult(answer),
                      ret |-> <<>>]
    /\ dapr_client' = GetClient(dapr_client)
    /\ UNCHANGED <<tasks, tasktags, nextId, now, topics, req, committed, db>>

\* reschedule_reminder up to its second await: "await
\* self.cancel_reminder(task_id)", whose DaprError ends the coroutine.
RescheduleCancel(r, task_id, remind_at, user_id, title) ==
    LET q == Begin("reschedule_reminder", user_id, task_id,
                   <<remind_at, user_id, title>>)
    IN  /\ CanStart(r)
        /\ nops' = nops + 1
        /\ \E answer \in CancelAnswers(jobs, ReminderJobId(task_id)) :
              IF answer = "ok"
              THEN /\ jobs' = CancelJob(jobs, ReminderJobId(task_id))
                   /\ Continue(r, [q EXCEPT !.pc = "cancelled"])
              ELSE /\ jobs' = jobs
                   /\ Finish(r, q, CancelResult(answer))
        /\ dapr_client' = GetClient(dapr_client)
        /\ UNCHANGED <<tasks, tasktags, nextId, now, topics, committed, db>>

\* reschedule_reminder from "await self.schedule_reminder(...)" to its end
RescheduleSchedule(r) ==
    LET q == req[r]
        job == ReminderJob(q.tid, q.inp[1], q.inp[2], q.inp[3])
    IN  /\ q.pc = "cancelled"
        /\ q.op = "reschedule_reminder"
        /\ \E daprOk \in BOOLEAN :
              IF daprOk
              THEN /\ jobs' = ScheduleJob(jobs, job)
                   /\ Finish(r, q, Ok)
              ELSE /\ jobs' = jobs
                   /\ GatewayFailure(r, q, DaprError)
        /\ dapr_client' = GetClient(dapr_client)
        /\ UNCHANGED <<tasks, tasktags, nextId, now, topics, nops, committed, db>>

----------------------------------------------------------------------------
(* DaprClient: connect, disconnect and a call *)

\* "await client.connect()": it awaits nothing and returns None
ClientConnect ==
    /\ nops < MaxOps
    /\ nops' = nops + 1
    /\ dapr_client' = DaprConnect(dapr_client)
    /\ resp' = [op |-> "connect", user |-> "u1", tid |-> 0, inp |-> <<>>,
                result |-> Ok, ret |-> <<>>]
    /\ UNCHANGED <<tasks, tasktags, nextId, now, topics, jobs, req, committed, db>>

\* disconnect up to the await of "await self._client.aclose()": without a
\* client it returns at once; with one, aclose() marks the client closed and
\* then awaits the closing of its transport, with self._client still set.
ClientDisconnectClose(r) ==
    /\ CanStart(r)
    /\ nops' = nops + 1
    /\ IF dapr_client._client = None
       THEN /\ Finish(r, Begin("disconnect", "u1", 0, <<>>), Ok)
            /\ UNCHANGED dapr_client
       ELSE /\ dapr_client' = [dapr_client EXCEPT
                                  !.closed = @ \cup {dapr_client._client[1]}]
            /\ Continue(r, [Begin("disconnect", "u1", 0, <<>>) EXCEPT
                               !.pc = "closing",
                               !.obj = dapr_client._client])
    /\ UNCHANGED <<tasks, tasktags, nextId, now, topics, jobs, committed, db>>

\* disconnect: "self._client = None"
ResetClient(c) == [c EXCEPT !._client = None]

\* disconnect after aclose() has returned: "self._client = None"
ClientDisconnectReset(r) ==
    LET q == req[r] IN
    /\ q.pc = "closing"
    /\ q.op = "disconnect"
    /\ dapr_client' = ResetClient(dapr_client)
    /\ Finish(r, [q EXCEPT !.obj = <<>>], Ok)
    /\ UNCHANGED <<tasks, tasktags, nextId, now, topics, jobs, nops, committed, db>>

\* health_check up to the await of http.get("/healthz"): get_client yields
\* self._client, connecting first when there is none. A client that a
\* disconnect in flight has closed refuses the request with RuntimeError,
\* which is no httpx.HTTPError and so leaves health_check as it is.
HealthCheckSend(r) ==
    LET q == [Begin("health_check", "u1", 0, <<>>) EXCEPT
                 !.obj = GetClient(dapr_client)._client]
    IN  /\ CanStart(r)
        /\ nops' = nops + 1
        /\ dapr_client' = GetClient(dapr_client)
        /\ IF q.obj # None /\ q.obj[1] \in dapr_client.closed
           THEN Finish(r, q, RuntimeError)
           ELSE Continue(r, [q EXCEPT !.pc = "sent"])
        /\ UNCHANGED <<tasks, tasktags, nextId, now, topics, jobs, committed, db>>

\* health_check from the answer to GET /healthz: True, or DaprError for an
\* error status and for a request that failed
HealthCheckAnswer(r) ==
    LET q == req[r] IN
    /\ q.pc = "sent"
    /\ q.op = "health_check"
    /\ \E daprOk \in BOOLEAN :
          IF daprOk THEN Finish(r, q, Ok) ELSE GatewayFailure(r, q, DaprError)
    /\ UNCHANGED <<tasks, tasktags, nextId, now, topics, jobs, nops, committed,
                   dapr_client, db>>

----------------------------------------------------------------------------
(* DatabaseConnection: get_session and disconnect *)

\* how the block of an "async with db.get_session()" ends: Ok when it runs to
\* its end, else the exception it raises
SessionBlocks == {Ok, TaskNotFoundError(1), StoreError, CancelledError}

\* get_session up to its yield: "if not self._initialized: await
\* self.connect()", then "session = self.async_session_maker()"
GetSession(d) ==
    [DbConnect(d) EXCEPT !.sessions = Append(@, NewSession(DbConnect(d)))]

\* "async with db.get_session() as session:" up to the block: the session is
\* made and handed to the block, which ends as `block` says
GetSessionEnter(r, block) ==
    /\ CanStart(r)
    /\ nops' = nops + 1
    /\ db' = GetSession(db)
    /\ Continue(r, [Begin("get_session", "u1", 0, block) EXCEPT
                       !.pc = "in_block",
                       !.obj = Some(Len(db.sessions) + 1)])
    /\ UNCHANGED <<tasks, tasktags, nextId, now, topics, jobs, committed, dapr_client>>

\* an end of the block that leaves the transaction as it is
SessionUntouched(session, block, commitOk) == session

\* get_session from the end of the block to "finally": after a block that ran
\* to its end "await session.commit()"; "except Exception" catches the
\* exception of the block or of the commit and rolls back; CancelledError is
\* not caught, the transaction stays open for close().
SessionAfterBlock(session, block, commitOk) ==
    IF block = Ok /\ commitOk THEN [session EXCEPT !.committed = TRUE]
    ELSE IF block = CancelledError THEN session
    ELSE [session EXCEPT !.rolled_back = TRUE]

\* the block of the session of slot r ends; get_session commits or rolls back
SessionBlockEnds(r) ==
    LET q == req[r] IN
    /\ q.pc = "in_block"
    /\ q.op = "get_session"
    /\ \E commitOk \in BOOLEAN :
          /\ db' = [db EXCEPT !.sessions[q.obj[1]] = SessionAfterBlock(@, q.inp, commitOk)]
          /\ Continue(r, [q EXCEPT !.pc = "closing",
                                   !.snap = IF q.inp # Ok THEN q.inp
                                            ELSE IF commitOk THEN Ok
                                            ELSE StoreError])
    /\ UNCHANGED <<tasks, tasktags, nextId, now, topics, jobs, nops, committed,
                   dapr_client>>

\* "await session.close()": the session is closed; a transaction that is
\* still open is rolled back with it
SessionClose(session) ==
    [session EXCEPT !.closed = TRUE,
                    !.rolled_back = IF session.committed THEN @ ELSE TRUE]

\* get_session from "finally" to its end: the session is closed and the
\* exception, if any, goes on to the caller of the block
GetSessionExit(r) ==
    LET q == req[r] IN
    /\ q.pc = "closing"
    /\ q.op = "get_session"
    /\ db' = [db EXCEPT !.sessions[q.obj[1]] = SessionClose(@)]
    /\ Finish(r, [q EXCEPT !.snap = <<>>], q.snap)
    /\ UNCHANGED <<tasks, tasktags, nextId, now, topics, jobs, nops, committed,
                   dapr_client>>

\* DatabaseConnection.disconnect up to the await of "await
\* self.async_engine.dispose()": without an engine it returns at once
DbDisconnectDispose(r) ==
    /\ CanStart(r)
    /\ nops' = nops + 1
    /\ IF db.async_engine = None
       THEN /\ Finish(r, Begin("db_disconnect", "u1", 0, <<>>), Ok)
            /\ UNCHANGED db
       ELSE /\ db' = [db EXCEPT !.disposed = @ \cup {db.async_engine[1]}]
            /\ Continue(r, [Begin("db_disconnect", "u1", 0, <<>>) EXCEPT
                               !.pc = "disposing"])
    /\ UNCHANGED <<tasks, tasktags, nextId, now, topics, jobs, committed, dapr_client>>

\* DatabaseConnection.disconnect after dispose(): "self._initialized = False"
DbDisconnectReset(r) ==
    LET q == req[r] IN
    /\ q.pc = "disposing"
    /\ q.op = "db_disconnect"
    /\ db' = [db EXCEPT !._initialized = FALSE]
    /\ Finish(r, q, Ok)
    /\ UNCHANGED <<tasks, tasktags, nextId, now, topics, jobs, nops, committed,
                   dapr_client>>

----------------------------------------------------------------------------
(* Health checks *)

\* DependencyStatus(status=...) as check_database, check_dapr and check_kafka
\* build it: "healthy", or "unreachable" when the check caught an exception
DependencyStatus(ok) == [status |-> IF ok THEN "healthy" ELSE "unreachable"]

\* GET /ready up to "await check_dapr()": check_database opens a session of db
\* (which connects db at its first use), executes "SELECT 1" and catches every
\* exception. The awaits inside the check touch nothing another request
\* reads, so the check is one step. The statement is a plain string, which
\* SQLAlchemy 2 refuses: the outcome is then "unreachable" as for a database
\* that does not answer.
ReadinessCheckDatabase(r) ==
    /\ CanStart(r)
    /\ nops' = nops + 1
    /\ \E dbOk \in BOOLEAN :
          /\ db' = [GetSession(db) EXCEPT
                      !.sessions[Len(db.sessions) + 1] =
                          SessionClose(SessionAfterBlock(
                              @, IF dbOk THEN Ok ELSE StoreError, dbOk))]
          /\ Continue(r, [Begin("readiness_check", "u1", 0, <<>>) EXCEPT
                            !.pc = "database_checked",
                            !.obj = [database |-> DependencyStatus(dbOk)]])
    /\ UNCHANGED <<tasks, tasktags, nextId, now, topics, jobs, committed, dapr_client>>

\* GET /ready from check_dapr to "await check_kafka()": health_check() of the
\* DaprClient, GET /healthz, whose DaprError check_dapr catches
ReadinessCheckDapr(r) ==
    LET q == req[r] IN
    /\ q.pc = "database_checked"
    /\ q.op = "readiness_check"
    /\ dapr_client' = GetClient(dapr_client)
    /\ \E daprOk \in BOOLEAN :
          Continue(r, [q EXCEPT !.pc = "dapr_checked",
                                !.obj = [database |-> q.obj.database,
                                         dapr |-> DependencyStatus(daprOk)]])
    /\ UNCHANGED <<tasks, tasktags, nextId, now, topics, jobs, nops, committed, db>>

\* GET /ready from check_kafka to its return: check_kafka publishes
\* publish(topic="task-events", event_type="health.check", data={"message":
\* "Health check"}) and catches every exception; then the response is built,
\* the failure logged, and the response returned, with the status_code=200 of
\* the route.
ReadinessCheckKafka(r) ==
    LET q == req[r]
        msg == [topic |-> "task-events",
                data |-> Envelope("health.check", [message |-> "Health check"], now)]
    IN  /\ q.pc = "dapr_checked"
        /\ q.op = "readiness_check"
        /\ dapr_client' = GetClient(dapr_client)
        /\ \E kafkaOk \in BOOLEAN :
              LET dependencies == [database |-> q.obj.database,
                                   dapr |-> q.obj.dapr,
                                   kafka |-> DependencyStatus(kafkaOk)]
                  all_healthy == \A d \in DOMAIN dependencies :
                                    dependencies[d].status = "healthy"
              IN  /\ topics' = IF kafkaOk THEN DaprPublish(topics, msg) ELSE topics
                  /\ Finish(r, [q EXCEPT !.obj =
                                   [status |-> IF all_healthy THEN "healthy"
                                                              ELSE "unhealthy",
                                    timestamp |-> <<Isoformat(now), "Z">>,
                                    dependencies |-> dependencies]], Ok)
        /\ UNCHANGED <<tasks, tasktags, nextId, now, jobs, nops, committed, db>>

----------------------------------------------------------------------------
(* lifespan *)

\* lifespan after its yield, run when the server has no request in flight:
\* "await dapr_client.disconnect()" uses the global dapr_client, which main.py
\* never binds (it imports get_dapr_client and does not call it), so the
\* statement raises NameError and the lines after it, "await db.disconnect()"
\* among them, do not run.
LifespanShutdown ==
    /\ nops < MaxOps
    /\ \A r \in Reqs : req[r].pc = "idle"
    /\ nops' = nops + 1
    /\ resp' = [op |-> "shutdown", user |-> "u1", tid |-> 0, inp |-> <<>>,
                result |-> NameError("dapr_client"), ret |-> <<>>]
    /\ UNCHANGED <<tasks, tasktags, nextId, now, topics, jobs, req, committed,
                   dapr_client, db>>

----------------------------------------------------------------------------
(* Specification *)

\* the task ids requests ask for: those drawn so far and the next one, which
\* no row has yet
TaskIds == 1..nextId

Next ==
    \/ Tick
    \/ \E r \in Reqs, c \in CreateCalls : CreateValidateAndFlush(r, c[1], c[2])
    \/ \E r \in Reqs : CreateCommit(r)
    \/ \E r \in Reqs, u \in Users, i \in TaskIds : GetTask(r, u, i)
    \/ \E r \in Reqs, i \in TaskIds, c \in UpdateCalls : UpdateFetch(r, c[1], i, c[2])
    \/ \E r \in Reqs : UpdateTags(r)
    \/ \E r \in Reqs, u \in Users, i \in TaskIds : CompleteFetch(r, u, i)
    \/ \E r \in Reqs : CommitChanges(r)
    \/ \E r \in Reqs : Refresh(r)
    \/ \E r \in Reqs : Publish(r)
    \/ \E r \in Reqs, u \in Users, i \in TaskIds : DeleteFetch(r, u, i)
    \/ \E r \in Reqs : DeleteCommit(r)
    \/ \E r \in Reqs : DeletePublish(r)
    \/ \E i \in TaskIds, c \in ReminderCalls : ScheduleReminder(i, c[1], c[2], c[3])
    \/ \E i \in TaskIds : CancelReminder(i)

Spec == Init /\ [][Next]_vars

\* The state Spec is in after create_task("u1", due_date 2, priority high) ran
\* to its end at time 0, with the budget of requests reset.
SeedTask ==
    [NewTask([BaseCreate EXCEPT !.due_date = Some(2), !.priority = "high"], "u1", 0)
        EXCEPT !.id = 1]

InitAfterCreate ==
    /\ tasks = (1 :> SeedTask)
    /\ tasktags = {}
    /\ nextId = 2
    /\ now = 0
    /\ topics = DaprPublish([t \in Topics |-> <<>>],
                            PublishTaskEvent("created", TaskToDict(SeedTask), "u1", 0))
    /\ jobs = <<>>
    /\ req = [r \in Reqs |-> IdleReq]
    /\ resp = Reply([Begin("create", "u1", 1,
                           [BaseCreate EXCEPT !.due_date = Some(2), !.priority = "high"])
                        EXCEPT !.obj = SeedTask], Ok)
    /\ nops = 0
    /\ committed = {SeedTask}
    /\ dapr_client = DaprConnect(NewDaprClient)
    /\ db = NewDatabaseConnection

\* one request at a time: every request runs in slot r1, so that a request
\* begins when the one before it has ended
NextSequential ==
    \/ Tick
    \/ \E c \in CreateCalls : CreateValidateAndFlush("r1", c[1], c[2])
    \/ CreateCommit("r1")
    \/ \E u \in Users, i \in TaskIds : GetTask("r1", u, i)
    \/ \E i \in TaskIds, c \in UpdateCalls : UpdateFetch("r1", c[1], i, c[2])
    \/ UpdateTags("r1")
    \/ \E u \in Users, i \in TaskIds : CompleteFetch("r1", u, i)
    \/ CommitChanges("r1")
    \/ Refresh("r1")
    \/ Publish("r1")
    \/ \E u \in Users, i \in TaskIds : DeleteFetch("r1", u, i)
    \/ DeleteCommit("r1")
    \/ DeletePublish("r1")

SpecSequential == Init /\ [][NextSequential]_vars

\* one request at a time, on the task of InitAfterCreate
SpecSequentialAfterCreate == InitAfterCreate /\ [][NextSequential]_vars

\* every request, on the task of InitAfterCreate
SpecAfterCreate == InitAfterCreate /\ [][Next]_vars

\* the requests that work on an existing task (get, update, complete and
\* delete), on the task of InitAfterCreate
NextOnTask ==
    \/ Tick
    \/ \E r \in Reqs, u \in Users, i \in TaskIds : GetTask(r, u, i)
    \/ \E r \in Reqs, i \in TaskIds, c \in UpdateCalls : UpdateFetch(r, c[1], i, c[2])
    \/ \E r \in Reqs : UpdateTags(r)
    \/ \E r \in Reqs, u \in Users, i \in TaskIds : CompleteFetch(r, u, i)
    \/ \E r \in Reqs : CommitChanges(r)
    \/ \E r \in Reqs : Refresh(r)
    \/ \E r \in Reqs : Publish(r)
    \/ \E r \in Reqs, u \in Users, i \in TaskIds : DeleteFetch(r, u, i)
    \/ \E r \in Reqs : DeleteCommit(r)
    \/ \E r \in Reqs : DeletePublish(r)

SpecOnTask == InitAfterCreate /\ [][NextOnTask]_vars

\* The state of InitAfterCreate after schedule_reminder(1, due_date minus the
\* lead time, "u1", "a") has returned: task 1 has its reminder job.
InitWithReminder ==
    /\ tasks = (1 :> SeedTask)
    /\ tasktags = {}
    /\ nextId = 2
    /\ now = 0
    /\ topics = DaprPublish([t \in Topics |-> <<>>],
                            PublishTaskEvent("created", TaskToDict(SeedTask), "u1", 0))
    /\ jobs = ScheduleJob(<<>>, ReminderJob(1, 2 - reminder_minutes_before, "u1", "a"))
    /\ req = [r \in Reqs |-> IdleReq]
    /\ resp = [op |-> "schedule_reminder", user |-> "u1", tid |-> 1,
               inp |-> <<2 - reminder_minutes_before, "u1", "a">>,
               result |-> Ok,
               ret |-> ReminderJobId(1)]
    /\ nops = 0
    /\ committed = {SeedTask}
    /\ dapr_client = DaprConnect(NewDaprClient)
    /\ db = NewDatabaseConnection

\* the job scheduler next to update_task and complete_task, on the task and
\* the reminder job of InitWithReminder
NextReminders ==
    \/ Tick
    \/ \E r \in Reqs, i \in TaskIds, c \in UpdateCalls : UpdateFetch(r, c[1], i, c[2])
    \/ \E r \in Reqs : UpdateTags(r)
    \/ \E r \in Reqs, u \in Users, i \in TaskIds : CompleteFetch(r, u, i)
    \/ \E r \in Reqs : CommitChanges(r)
    \/ \E r \in Reqs : Refresh(r)
    \/ \E r \in Reqs : Publish(r)
    \/ \E i \in TaskIds, c \in ReminderCalls : ScheduleReminder(i, c[1], c[2], c[3])
    \/ \E i \in TaskIds : CancelReminder(i)
    \/ \E r \in Reqs, i \in TaskIds, c \in ReminderCalls :
          RescheduleCancel(r, i, c[1], c[2], c[3])
    \/ \E r \in Reqs : RescheduleSchedule(r)

SpecReminders == InitWithReminder /\ [][NextReminders]_vars

\* the create_task input and caller that left row i of a store to list
ListInput(i) ==
    [BaseCreate EXCEPT
        !.title = IF i % 2 = 0 THEN "b" ELSE "a",
        !.description = IF i % 3 = 0 THEN Some("b") ELSE None,
        !.due_date = IF i % 4 = 0 THEN None ELSE Some(i % 3),
        !.priority = (CASE i % 3 = 0 -> "high" [] i % 3 = 1 -> "medium"
                        [] OTHER -> "low"),
        !.status = IF i % 5 = 0 THEN "completed" ELSE "pending",
        !.is_recurring = (i % 7 = 0)]

ListOwner(i) == IF i = 2 THEN "u2" ELSE "u1"

ListRow(i) == [NewTask(ListInput(i), ListOwner(i), 0) EXCEPT !.id = i]

\* the numbers of rows of the stores list_tasks is run on
ListSizes == {0, 6, MaxRows}

\* The state after n create_task calls at time 0 ran to their end, one after
\* the other, with the budget of requests reset.
InitListing ==
    \E n \in ListSizes :
        /\ tasks = [i \in 1..n |-> ListRow(i)]
        /\ tasktags = {}
        /\ nextId = n + 1
        /\ now = 0
        /\ topics = [t \in Topics |->
                        IF t = kafka_topic_task_events
                        THEN [i \in 1..n |->
                                 PublishTaskEvent("created", TaskToDict(ListRow(i)),
                                                  ListOwner(i), 0).data]
                        ELSE <<>>]
        /\ jobs = <<>>
        /\ req = [r \in Reqs |-> IdleReq]
        /\ resp = IF n = 0 THEN Reply(IdleReq, Ok)
                  ELSE Reply([Begin("create", ListOwner(n), n, ListInput(n))
                                 EXCEPT !.obj = ListRow(n)], Ok)
        /\ nops = 0
        /\ committed = {ListRow(i) : i \in 1..n}
        /\ dapr_client = IF n = 0 THEN NewDaprClient ELSE DaprConnect(NewDaprClient)
        /\ db = NewDatabaseConnection

\* list_tasks calls on the stores of InitListing
NextListing ==
    \E r \in Reqs, c \in ListCalls : ListTasks(r, c[1], c[2])

SpecListing == InitListing /\ [][NextListing]_vars

\* publish_event calls alone
NextPublisher ==
    \/ Tick
    \/ \E c \in PublishCalls : PublishEvent(c[1], c[2], c[3])

SpecPublisher == Init /\ [][NextPublisher]_vars

\* GET /ready and the shutdown of the application next to complete_task, on
\* the task of InitAfterCreate
NextHealth ==
    \/ Tick
    \/ LifespanShutdown
    \/ \E r \in Reqs : ReadinessCheckDatabase(r)
    \/ \E r \in Reqs : ReadinessCheckDapr(r)
    \/ \E r \in Reqs : ReadinessCheckKafka(r)
    \/ \E r \in Reqs, u \in Users, i \in TaskIds : CompleteFetch(r, u, i)
    \/ \E r \in Reqs : CommitChanges(r)
    \/ \E r \in Reqs : Refresh(r)
    \/ \E r \in Reqs : Publish(r)

SpecHealth == InitAfterCreate /\ [][NextHealth]_vars

\* connect, disconnect and health_check of the DaprClient, in any interleaving
NextClient ==
    \/ Tick
    \/ ClientConnect
    \/ \E r \in Reqs : ClientDisconnectClose(r)
    \/ \E r \in Reqs : ClientDisconnectReset(r)
    \/ \E r \in Reqs : HealthCheckSend(r)
    \/ \E r \in Reqs : HealthCheckAnswer(r)

\* a DaprClient no call has used yet, or the one of InitAfterCreate, which
\* create_task has published through
InitClient == Init \/ InitAfterCreate

SpecClient == InitClient /\ [][NextClient]_vars

\* The state of Init after one "async with db.get_session()" block ran to its
\* end and was committed: db is connected.
InitAfterSession ==
    /\ tasks = <<>>
    /\ tasktags = {}
    /\ nextId = 1
    /\ now = 0
    /\ topics = [t \in Topics |-> <<>>]
    /\ jobs = <<>>
    /\ req = [r \in Reqs |-> IdleReq]
    /\ resp = Reply([Begin("get_session", "u1", 0, Ok) EXCEPT !.obj = Some(1)], Ok)
    /\ nops = 0
    /\ committed = {}
    /\ dapr_client = NewDaprClient
    /\ db = [GetSession(NewDatabaseConnection) EXCEPT
                !.sessions[1] = SessionClose(SessionAfterBlock(@, Ok, TRUE))]

\* a DatabaseConnection before its first use, or after one session
InitSessions == Init \/ InitAfterSession

\* get_session blocks and disconnect of the DatabaseConnection, in any
\* interleaving
NextSessions ==
    \/ \E r \in Reqs, block \in SessionBlocks : GetSessionEnter(r, block)
    \/ \E r \in Reqs : SessionBlockEnds(r)
    \/ \E r \in Reqs : GetSessionExit(r)
    \/ \E r \in Reqs : DbDisconnectDispose(r)
    \/ \E r \in Reqs : DbDisconnectReset(r)

SpecSessions == InitSessions /\ [][NextSessions]_vars

\* update_task requests alone, on the task of InitAfterCreate
NextUpdates ==
    \/ Tick
    \/ \E r \in Reqs, i \in TaskIds, c \in UpdateCalls : UpdateFetch(r, c[1], i, c[2])
    \/ \E r \in Reqs : UpdateTags(r)
    \/ \E r \in Reqs : CommitChanges(r)
    \/ \E r \in Reqs : Refresh(r)
    \/ \E r \in Reqs : Publish(r)

SpecUpdates == InitAfterCreate /\ [][NextUpdates]_vars

----------------------------------------------------------------------------
(* Properties *)

Lifecycle == topics[kafka_topic_task_events]
LiveSync == topics[kafka_topic_task_updates]

LastEvent(seq) == seq[Len(seq)]

\* the handler in slot r ends in this step
Ends(r) == req[r].pc # "idle" /\ req'[r].pc = "idle"

\* the handler in slot r ends in this step by returning
Returns(r) == Ends(r) /\ resp'.result = Ok

\* a handler begins and ends in this step (get_task, or a handler that raises
\* before its first commit): resp' describes it
BeginsAndEnds ==
    /\ nops' = nops + 1
    /\ req' = req
    /\ resp'.op \in {"create", "get", "update", "complete", "delete"}

CommittedDicts == {TaskToDict(c) : c \in committed}

\* C1: every successful create, update, complete and delete publishes, after
\* its commit, exactly one event on the lifecycle topic, of its own event
\* type, with the id of the affected task and the caller's user_id; the topic
\* receives nothing in any other step.
C1_SuccessPublishesOneEvent ==
    [][ /\ \A r \in Reqs :
              (Returns(r) /\ req[r].op \in MutatingOps) =>
                  /\ req[r].pc \in {"refreshed", "committed"}
                  /\ \E c \in committed : c.id = req[r].tid
                  /\ Len(Lifecycle') = Len(Lifecycle) + 1
                  /\ SubSeq(Lifecycle', 1, Len(Lifecycle)) = Lifecycle
                  /\ LastEvent(Lifecycle').event_type = EventTypeOf(req[r].op)
                  /\ LastEvent(Lifecycle').task_id = req[r].tid
                  /\ LastEvent(Lifecycle').user_id = req[r].user
        /\ Lifecycle' # Lifecycle =>
              \E r \in Reqs : Returns(r) /\ req[r].op \in MutatingOps
      ]_vars

C1_Witness ==
    /\ resp.op = "delete"
    /\ resp.result = Ok
    /\ Len(Lifecycle) = 2
    /\ Lifecycle[1].event_type = "created"
    /\ Lifecycle[2].event_type = "deleted"
    /\ Lifecycle[2].task_id = resp.tid

\* C2: the live-sync topic holds the same task events as the lifecycle topic.
C2_LiveSyncMirrorsLifecycle ==
    /\ Len(LiveSync) = Len(Lifecycle)
    /\ \A i \in 1..Len(Lifecycle) :
          /\ LiveSync[i].event_type = Lifecycle[i].event_type
          /\ LiveSync[i].task_id = Lifecycle[i].task_id
          /\ LiveSync[i].task_data = Lifecycle[i].task_data

\* C3: when create_task returns for an input with a due_date, the job
\* reminder-task-<id> is scheduled for due_date minus the lead time; for an
\* input without due_date create_task schedules nothing.
C3_CreateSchedulesReminder ==
    [][ \A r \in Reqs :
            (Returns(r) /\ req[r].op = "create") =>
                IF req[r].inp.due_date # None
                THEN /\ ReminderJobId(req[r].tid) \in DOMAIN jobs'
                     /\ jobs'[ReminderJobId(req[r].tid)].dueTime =
                           Strftime(req[r].inp.due_date[1] - reminder_minutes_before)
                ELSE jobs' = jobs
      ]_vars

\* C4: when update_task returns for a task that has a due_date, the job
\* reminder-task-<id> is scheduled for the committed due_date minus the lead
\* time.
C4_UpdateReschedulesReminder ==
    [][ \A r \in Reqs :
            (Returns(r) /\ req[r].op = "update" /\ req[r].obj.due_date # None) =>
                /\ ReminderJobId(req[r].tid) \in DOMAIN jobs'
                /\ jobs'[ReminderJobId(req[r].tid)].dueTime =
                      Strftime(req[r].obj.due_date[1] - reminder_minutes_before)
      ]_vars

\* C5: a handler whose commit fails ends with the store error, leaving rows
\* and topics as they were; and every event on the lifecycle topic carries a
\* task state that was committed.
C5_PublishOnlyAfterCommit ==
    [][ /\ \A r \in Reqs :
              (Ends(r) /\ req[r].pc \in {"flushed", "fetched"}) =>
                  /\ resp'.result \in {StoreError, IntegrityError}
                  /\ UNCHANGED <<tasks, tasktags, topics, committed>>
        /\ \A i \in 1..Len(Lifecycle') : Lifecycle'[i].task_data \in CommittedDicts'
      ]_vars

C5_Witness ==
    /\ resp.op = "update"
    /\ resp.result = StoreError
    /\ resp.tid \in DOMAIN tasks
    /\ Len(Lifecycle) = 1
    /\ Lifecycle[1].task_data = TaskToDict(tasks[resp.tid])

\* C6: a handler whose publish fails after its commit ends with DaprError and
\* the store stays as committed: no row and no TaskTag row changes, a deleted
\* task stays deleted.
C6_PublishFailureKeepsCommit ==
    [][ \A r \in Reqs :
            (Ends(r) /\ req[r].pc \in {"refreshed", "committed"}
                     /\ req[r].op \in MutatingOps /\ resp'.result # Ok
                     /\ (req[r].op # "delete" => req[r].pc = "refreshed")) =>
                /\ resp'.result = DaprError
                /\ UNCHANGED <<tasks, tasktags, topics>>
                /\ req[r].op = "delete" => req[r].tid \notin DOMAIN tasks'
      ]_vars

C6_Witness ==
    /\ resp.op = "complete"
    /\ resp.result = DaprError
    /\ resp.tid \in DOMAIN tasks
    /\ tasks[resp.tid].status = "completed"
    /\ tasks[resp.tid].completed_at # None
    /\ Len(Lifecycle) = 1

\* C7 as claimed: when an update_task publishes while the update_task that
\* ended before it was on the same task and no other handler runs, the event
\* it publishes carries the row as the last commit left it.
C7_LastCommitWinsForEvent ==
    [][ \A r \in Reqs :
            (Returns(r) /\ req[r].op = "update"
                /\ resp.op = "update" /\ resp.result = Ok /\ resp.tid = req[r].tid
                /\ (\A o \in Reqs \ {r} : req[o].pc = "idle")
                /\ req[r].tid \in DOMAIN tasks) =>
                LastEvent(Lifecycle').task_data = TaskToDict(tasks[req[r].tid])
      ]_vars

\* C7 as amended: every commit of an update writes the columns it changed,
\* whatever was committed before; and the event an update_task publishes
\* carries the state its handler read back after its own commit, which is a
\* committed state of the task.
C7_EventCarriesReadBackState ==
    [][ \A r \in Reqs :
            /\ (req[r].pc = "fetched" /\ req'[r].pc = "committed"
                   /\ req[r].op = "update") =>
                  \A f \in DOMAIN req[r].obj :
                      req[r].obj[f] # req[r].base[f] =>
                          tasks'[req[r].tid][f] = req[r].obj[f]
            /\ (Returns(r) /\ req[r].op = "update") =>
                  /\ LastEvent(Lifecycle').task_data = TaskToDict(req[r].obj)
                  /\ LastEvent(Lifecycle').task_id = req[r].tid
                  /\ req[r].obj \in committed
                  /\ req[r].obj.id = req[r].tid
      ]_vars

\* two updates of task 1 have been published and the later event is older
\* than the row
C7_Witness ==
    /\ \A r \in Reqs : req[r].pc = "idle"
    /\ Len(Lifecycle) = 3
    /\ Lifecycle[2].event_type = "updated"
    /\ Lifecycle[3].event_type = "updated"
    /\ Lifecycle[3].task_id = 1
    /\ Lifecycle[3].task_data # TaskToDict(tasks[1])
    /\ Lifecycle[2].task_data = TaskToDict(tasks[1])

\* C8: completed_at is set exactly on the tasks whose status is completed.
C8_CompletedAtIffCompleted ==
    \A i \in DOMAIN tasks :
        (tasks[i].completed_at # None) <=> (tasks[i].status = "completed")

\* C9: get_task returns the row when a row with that id is owned by the
\* caller, and otherwise raises the TaskNotFoundError of that id, the same for
\* a row of another user as for no row; it changes nothing.
C9_GetTaskOwnershipIsolation ==
    [][ (BeginsAndEnds /\ resp'.op = "get") =>
            /\ IF resp'.tid \in DOMAIN tasks /\ tasks[resp'.tid].user_id = resp'.user
               THEN resp'.result = Ok /\ resp'.ret = tasks[resp'.tid]
               ELSE resp'.result = TaskNotFoundError(resp'.tid)
            /\ UNCHANGED <<tasks, tasktags, topics, jobs>>
      ]_vars

C9_Witness ==
    /\ resp.op = "get"
    /\ resp.result = TaskNotFoundError(resp.tid)
    /\ resp.tid \in DOMAIN tasks
    /\ tasks[resp.tid].user_id # resp.user

\* C10: update_task, complete_task and delete_task get past get_task only for
\* the owner of the task; called by anyone else they raise TaskNotFoundError
\* in the step they begin, and rows, TaskTag rows, topics and jobs stay as
\* they were.
C10_NonOwnerHasNoEffect ==
    [][ /\ \A r \in Reqs :
              (req'[r].pc # "idle" /\ req'[r].op \in {"update", "complete", "delete"}) =>
                  /\ req'[r].base.id = req'[r].tid
                  /\ req'[r].base.user_id = req'[r].user
        /\ (BeginsAndEnds /\ resp'.op \in {"update", "complete", "delete"}) =>
              /\ resp'.result = TaskNotFoundError(resp'.tid)
              /\ ~GetTaskFound(resp'.tid, resp'.user)
              /\ UNCHANGED <<tasks, tasktags, topics, jobs>>
      ]_vars

C10_Witness ==
    /\ resp.op \in {"update", "complete", "delete"}
    /\ resp.result = TaskNotFoundError(resp.tid)
    /\ resp.tid \in DOMAIN tasks
    /\ tasks[resp.tid].user_id # resp.user
    /\ \A r \in Reqs : req[r].pc = "idle"

\* C11: create_task rejects exactly the inputs whose due_date lies before
\* now: it then raises TaskValidationError for due_date in the step it begins,
\* with rows, TaskTag rows, topics and jobs as they were; an input without
\* due_date, or with one at or after now, goes on to its INSERT.
C11_PastDueDateRejected ==
    [][ /\ (BeginsAndEnds /\ resp'.op = "create") =>
              /\ resp'.inp.due_date # None
              /\ resp'.inp.due_date[1] < now
              /\ resp'.result = TaskValidationError("due_date")
              /\ UNCHANGED <<tasks, tasktags, topics, jobs>>
        /\ \A r \in Reqs :
              (req[r].pc = "idle" /\ req'[r].pc = "flushed") =>
                  \/ req'[r].inp.due_date = None
                  \/ req'[r].inp.due_date[1] >= now
      ]_vars

\* the fields of TaskBase
InputFields ==
    {"title", "description", "due_date", "priority", "status", "is_recurring",
     "recurring_pattern_id"}

\* C12: a get_task that follows a create_task that returned, for the id it
\* returned and the same user, returns the task of that id and user whose
\* TaskBase fields are those of the create input.
C12_CreateGetRoundTrip ==
    [][ (BeginsAndEnds /\ resp'.op = "get"
            /\ resp.op = "create" /\ resp.result = Ok
            /\ resp'.tid = resp.ret.id /\ resp'.user = resp.user) =>
            /\ resp'.result = Ok
            /\ resp'.ret.id = resp.ret.id
            /\ resp'.ret.user_id = resp.user
            /\ \A f \in InputFields : resp'.ret[f] = resp.inp[f]
      ]_vars

C12_Witness ==
    /\ resp.op = "get"
    /\ resp.result = Ok
    /\ resp.user = "u1"
    /\ resp.ret.priority = "high"
    /\ resp.ret.due_date = Some(2)
    /\ resp.ret.status = "pending"
    /\ resp.ret.id = resp.tid

\* the commit of the update_task in slot r succeeds in this step
UpdateCommits(r) ==
    /\ req[r].op = "update"
    /\ req[r].pc = "fetched"
    /\ req'[r].pc = "committed"

\* C13: the commit of an update_task leaves every column of the row that the
\* input does not set, updated_at apart, as it was, and without a tag list
\* leaves the TaskTag rows as they were; no other step of update_task writes
\* to the store.
C13_UpdateLeavesUnsetFields ==
    [][ \A r \in Reqs :
            /\ (UpdateCommits(r) /\ req[r].tid \in DOMAIN tasks) =>
                  /\ req[r].tid \in DOMAIN tasks'
                  /\ \A f \in DOMAIN tasks[req[r].tid] \
                                 (UpdateData(req[r].inp) \cup {"updated_at"}) :
                        tasks'[req[r].tid][f] = tasks[req[r].tid][f]
                  /\ \A i \in DOMAIN tasks \ {req[r].tid} : tasks'[i] = tasks[i]
                  /\ TagIdsOf(req[r].inp) = None => tasktags' = tasktags
            /\ (req[r].op = "update" /\ req'[r] # req[r] /\ ~UpdateCommits(r)) =>
                  UNCHANGED <<tasks, tasktags>>
      ]_vars

C13_Witness ==
    /\ resp.op = "update"
    /\ resp.result = Ok
    /\ DOMAIN resp.inp = {"status"}
    /\ tasks[resp.tid].status = "completed"
    /\ tasks[resp.tid].title = "a"
    /\ tasks[resp.tid].priority = "high"
    /\ tasks[resp.tid].due_date = Some(2)
    /\ tasks[resp.tid].updated_at = 1
    /\ tasks[resp.tid].created_at = 0

\* C14: when an update_task commits right after an update_task of the same
\* task, user and input has returned, its commit leaves every column of the
\* row but updated_at, and the TaskTag rows, as the first left them.
C14_SameUpdateTwice ==
    [][ \A r \in Reqs :
            (UpdateCommits(r)
                /\ resp.op = "update" /\ resp.result = Ok
                /\ resp.tid = req[r].tid /\ resp.user = req[r].user
                /\ resp.inp = req[r].inp) =>
                /\ \A f \in DOMAIN resp.ret \ {"updated_at"} :
                      /\ tasks[req[r].tid][f] = resp.ret[f]
                      /\ tasks'[req[r].tid][f] = resp.ret[f]
                /\ tasktags' = tasktags
      ]_vars

C14_Witness ==
    /\ resp.op = "update"
    /\ resp.result = Ok
    /\ DOMAIN resp.inp = {"status", "due_date"}
    /\ Len(Lifecycle) = 3
    /\ Lifecycle[2].event_type = "updated"
    /\ Lifecycle[2].task_data.due_date = Isoformat(0)
    /\ Lifecycle[3].event_type = "updated"
    /\ Lifecycle[3].task_data.due_date = Isoformat(0)
    /\ Lifecycle[3].task_data.updated_at # Lifecycle[2].task_data.updated_at
    /\ tasks[resp.tid].due_date = Some(0)

\* the value of column f after an update that supplies v for it
Supplied(f, v) == IF f \in OptionalFields \/ v = None THEN v ELSE v[1]

\* C15: the commit of an update_task leaves every field the input supplies,
\* a field supplied as null included, with the supplied value.
C15_UpdateAppliesPresentFields ==
    [][ \A r \in Reqs :
            (UpdateCommits(r) /\ req[r].tid \in DOMAIN tasks') =>
                \A f \in UpdateData(req[r].inp) :
                    tasks'[req[r].tid][f] = Supplied(f, req[r].inp[f])
      ]_vars

\* the tag ids the TaskTag rows `rows` associate with task `id`
TagsOfTask(rows, id) == {tt.tag_id : tt \in {x \in rows : x.task_id = id}}

\* the elements of a list
Elements(list) == {list[i] : i \in DOMAIN list}

\* C16: when an update_task with a tag list reaches its commit, the commit
\* goes through and leaves the task with exactly the tags of the list, unless
\* the store itself fails.
C16_UpdateReplacesTags ==
    [][ \A r \in Reqs :
            (req[r].op = "update" /\ TagIdsOf(req[r].inp) # None
                /\ req[r].pc = "fetched" /\ req'[r].pc # "fetched") =>
                \/ /\ req'[r].pc = "committed"
                   /\ TagsOfTask(tasktags', req[r].tid) =
                          Elements(TagIdsOf(req[r].inp)[1])
                \/ /\ Ends(r)
                   /\ resp'.result = StoreError
      ]_vars

\* C17: while and when a create_task with tag ids runs and ends, the store
\* holds either its task together with one TaskTag row per tag id, or neither
\* the task nor any TaskTag row of it.
C17_CreateWithTagsIsAtomic ==
    [][ \A r \in Reqs :
            (req[r].op = "create" /\ req[r].pc # "idle"
                /\ req[r].inp.tag_ids # None) =>
                \/ /\ req[r].tid \in DOMAIN tasks'
                   /\ TagsOfTask(tasktags', req[r].tid) =
                          Elements(req[r].inp.tag_ids[1])
                \/ /\ req[r].tid \notin DOMAIN tasks'
                   /\ TagsOfTask(tasktags', req[r].tid) = {}
      ]_vars

C17_Witness ==
    /\ resp.op = "create"
    /\ resp.inp.tag_ids = Some(<<1>>)
    /\ resp.result = IntegrityError
    /\ resp.tid < nextId
    /\ resp.tid \notin DOMAIN tasks
    /\ TagsOfTask(tasktags, resp.tid) = {}

\* the ids of the tasks a delete_task has returned for: it published their
\* deleted event
DeletedIds ==
    {Lifecycle[k].task_id :
        k \in {j \in 1..Len(Lifecycle) : Lifecycle[j].event_type = "deleted"}}

\* C18: once delete_task has returned for a task, no row of that id is in the
\* table again, and every get_task, update_task, complete_task and
\* delete_task that begins for that id raises TaskNotFoundError in the step it
\* begins.
C18_DeletedStaysDeleted ==
    [][ /\ \A i \in DeletedIds : i \notin DOMAIN tasks'
        /\ (BeginsAndEnds /\ resp'.op \in {"get", "update", "complete", "delete"}
                /\ resp'.tid \in DeletedIds) =>
              resp'.result = TaskNotFoundError(resp'.tid)
        /\ \A r \in Reqs :
              (req[r].pc = "idle" /\ req'[r].pc # "idle"
                  /\ req'[r].op \in {"update", "complete", "delete"}) =>
                  req'[r].tid \notin DeletedIds
      ]_vars

C18_Witness ==
    /\ resp.op \in {"get", "update", "complete", "delete"}
    /\ resp.user = "u1"
    /\ resp.tid = 1
    /\ resp.tid \in DeletedIds
    /\ resp.result = TaskNotFoundError(resp.tid)

DeleteLoads(r) ==
    /\ req[r].pc = "idle"
    /\ req'[r].op = "delete"
    /\ req'[r].pc = "fetched"

\* the commit of the delete_task in slot r succeeds in this step
DeleteCommits(r) ==
    /\ req[r].op = "delete"
    /\ req[r].pc = "fetched"
    /\ req'[r].pc = "committed"

\* the delete_task in slot r returns in this step with the event `e` published
PublishesDeleted(r, e) ==
    /\ Returns(r)
    /\ req[r].op = "delete"
    /\ e = LastEvent(Lifecycle')
    /\ e.event_type = "deleted"
    /\ e.task_id = req[r].tid

\* C20 as claimed: the deleted event carries the row as it was in the table
\* when the commit of delete_task deleted it.
C20_DeletedEventCarriesLastRow ==
    [][ \A r \in Reqs :
            /\ (DeleteCommits(r) /\ req[r].tid \in DOMAIN tasks) =>
                  req[r].snap = TaskToDict(tasks[req[r].tid])
            /\ (Returns(r) /\ req[r].op = "delete") =>
                  /\ PublishesDeleted(r, LastEvent(Lifecycle'))
                  /\ LastEvent(Lifecycle').task_data = req[r].snap
      ]_vars

\* C20 as amended: the deleted event carries the row as delete_task loaded it,
\* a committed state of the task, taken before the delete and the commit; it
\* is the row the commit deletes when no other request changed the row in
\* between.
C20_DeletedEventCarriesLoadedRow ==
    [][ \A r \in Reqs :
            /\ DeleteLoads(r) =>
                  /\ req'[r].snap = TaskToDict(tasks[req'[r].tid])
                  /\ req'[r].base = tasks[req'[r].tid]
            /\ (req[r].op = "delete" /\ req[r].pc # "idle" /\ req'[r].pc # "idle") =>
                  req'[r].snap = req[r].snap
            /\ (DeleteCommits(r) /\ req[r].tid \in DOMAIN tasks
                    /\ tasks[req[r].tid] = req[r].base) =>
                  req[r].snap = TaskToDict(tasks[req[r].tid])
            /\ (Returns(r) /\ req[r].op = "delete") =>
                  /\ PublishesDeleted(r, LastEvent(Lifecycle'))
                  /\ LastEvent(Lifecycle').task_data = req[r].snap
                  /\ req[r].snap.id = req[r].tid
                  /\ req[r].snap \in CommittedDicts
      ]_vars

\* delete_task has returned with an event that is older than the row it
\* deleted: an update_task committed title "b" after delete_task loaded "a"
C20_Witness ==
    /\ resp.op = "delete"
    /\ resp.result = Ok
    /\ LastEvent(Lifecycle).event_type = "deleted"
    /\ LastEvent(Lifecycle).task_id = resp.tid
    /\ LastEvent(Lifecycle).task_data.title = "a"
    /\ \E c \in committed : c.id = resp.tid /\ c.title = "b"

\* the commit of the complete_task in slot r succeeds in this step
CompleteCommits(r) ==
    /\ req[r].op = "complete"
    /\ req[r].pc = "fetched"
    /\ req'[r].pc = "committed"

\* C21: complete_task is rejected only when get_task finds no task of the
\* caller, never because the task is completed already; its commit leaves the
\* row completed, with completed_at and updated_at at the time of the call,
\* also when the row was completed before; and when it returns, the task it
\* returns is the row, completed with completed_at set, and one more completed
\* event is on the lifecycle topic.
C21_CompleteIsIdempotentOnStatus ==
    [][ /\ (BeginsAndEnds /\ resp'.op = "complete") =>
              /\ ~GetTaskFound(resp'.tid, resp'.user)
              /\ resp'.result = TaskNotFoundError(resp'.tid)
        /\ \A r \in Reqs :
              /\ CompleteCommits(r) =>
                    /\ tasks'[req[r].tid].status = "completed"
                    /\ tasks'[req[r].tid].completed_at = Some(req[r].obj.updated_at)
                    /\ tasks'[req[r].tid].updated_at = req[r].obj.updated_at
                    /\ req[r].obj.updated_at \in 0..now
              /\ (Returns(r) /\ req[r].op = "complete") =>
                    /\ resp'.ret = tasks'[req[r].tid]
                    /\ resp'.ret.status = "completed"
                    /\ resp'.ret.completed_at # None
                    /\ Len(Lifecycle') = Len(Lifecycle) + 1
                    /\ LastEvent(Lifecycle').event_type = "completed"
                    /\ LastEvent(Lifecycle').task_data = TaskToDict(resp'.ret)
      ]_vars

\* complete_task has returned twice for task 1, at time 0 and at time 1
C21_Witness ==
    /\ resp.op = "complete"
    /\ resp.result = Ok
    /\ Len(Lifecycle) = 3
    /\ Lifecycle[2].event_type = "completed"
    /\ Lifecycle[2].task_data.completed_at = Isoformat(0)
    /\ Lifecycle[3].event_type = "completed"
    /\ Lifecycle[3].task_data.completed_at = Isoformat(1)
    /\ Lifecycle[3].task_data.updated_at = Isoformat(1)
    /\ tasks[1].status = "completed"
    /\ tasks[1].completed_at = Some(1)

\* C22: no step of complete_task changes the jobs the sidecar holds: the
\* reminder job of the task that is scheduled when complete_task begins is
\* still scheduled, with the same time, when it ends.
C22_CompleteKeepsReminder ==
    [][ /\ \A r \in Reqs :
              ((req[r].op = "complete" \/ req'[r].op = "complete")
                  /\ req'[r] # req[r]) =>
                  jobs' = jobs
        /\ (BeginsAndEnds /\ resp'.op = "complete") => jobs' = jobs
      ]_vars

\* complete_task has returned for task 1 and the reminder job of task 1 that
\* was scheduled before it is there
C22_Witness ==
    /\ resp.op = "complete"
    /\ resp.result = Ok
    /\ resp.tid = 1
    /\ tasks[1].status = "completed"
    /\ ReminderJobId(1) \in DOMAIN jobs
    /\ jobs[ReminderJobId(1)].dueTime = Strftime(2 - reminder_minutes_before)

\* the jobs among `js` that are reminders of task `i`
JobsOfTask(js, i) == {j \in DOMAIN js : js[j].data.task_id = i}

\* a schedule call for task i and time t gets through in this step: a
\* schedule_reminder, or the second half of a reschedule_reminder
ScheduleSucceeds(i, t) ==
    \/ /\ nops' = nops + 1
       /\ req' = req
       /\ resp'.op = "schedule_reminder"
       /\ resp'.result = Ok
       /\ resp'.tid = i
       /\ resp'.inp[1] = t
    \/ \E r \in Reqs :
          /\ Returns(r)
          /\ req[r].op = "reschedule_reminder"
          /\ req[r].tid = i
          /\ req[r].inp[1] = t

\* a cancel call for task i gets through in this step: a cancel_reminder, or
\* the first half of a reschedule_reminder
CancelSucceeds(i) ==
    \/ /\ nops' = nops + 1
       /\ req' = req
       /\ resp'.op = "cancel_reminder"
       /\ resp'.result = Ok
       /\ resp'.tid = i
    \/ \E r \in Reqs :
          /\ req[r].pc = "idle"
          /\ req'[r].pc = "cancelled"
          /\ req'[r].tid = i

\* C23: the sidecar never holds two reminder jobs of one task, and every
\* reminder job has the id reminder-task-<task_id>; a schedule call that gets
\* through leaves the job of its task with the time it was called with, a
\* cancel call that gets through leaves the task without job, both leave the
\* jobs of other tasks alone, and nothing else changes a job.
C23_OneReminderJobPerTask ==
    [][ /\ \A i \in TaskIds : Cardinality(JobsOfTask(jobs', i)) <= 1
        /\ \A j \in DOMAIN jobs' : j = ReminderJobId(jobs'[j].data.task_id)
        /\ \A i \in TaskIds, c \in ReminderCalls :
              ScheduleSucceeds(i, c[1]) =>
                  /\ JobsOfTask(jobs', i) = {ReminderJobId(i)}
                  /\ jobs'[ReminderJobId(i)].dueTime = Strftime(c[1])
                  /\ \A j \in DOMAIN jobs' \ {ReminderJobId(i)} :
                        j \in DOMAIN jobs /\ jobs'[j] = jobs[j]
        /\ \A i \in TaskIds :
              CancelSucceeds(i) =>
                  /\ JobsOfTask(jobs', i) = {}
                  /\ \A j \in DOMAIN jobs \ {ReminderJobId(i)} :
                        j \in DOMAIN jobs' /\ jobs'[j] = jobs[j]
        /\ jobs' # jobs =>
              \E i \in TaskIds :
                  \/ CancelSucceeds(i)
                  \/ \E c \in ReminderCalls : ScheduleSucceeds(i, c[1])
      ]_vars

\* the one call made since schedule_reminder(1, ...) returned is a
\* reschedule_reminder for task 1 with another time, and it has returned: one
\* job, with the later time
C23_Witness ==
    /\ nops = 1
    /\ resp.op = "reschedule_reminder"
    /\ resp.result = Ok
    /\ resp.tid = 1
    /\ resp.inp[1] = 0 - reminder_minutes_before
    /\ JobsOfTask(jobs, 1) = {ReminderJobId(1)}
    /\ jobs[ReminderJobId(1)].dueTime = Strftime(0 - reminder_minutes_before)
    /\ DOMAIN jobs = {ReminderJobId(1)}

\* C24: a cancel_reminder for a task without job returns, whenever the
\* sidecar answers it; and a reschedule_reminder for a task without job goes
\* on to its schedule call, whenever the sidecar answers its cancel call.
C24_CancelOfAbsentJobSucceeds ==
    [][ /\ (nops' = nops + 1 /\ req' = req
               /\ resp'.op \in {"cancel_reminder", "reschedule_reminder"}
               /\ ReminderJobId(resp'.tid) \notin DOMAIN jobs) =>
              /\ resp'.result # DaprStatusError
              /\ resp'.op = "reschedule_reminder" => resp'.result = DaprError
        /\ \A r \in Reqs :
              (Returns(r) /\ req[r].op = "reschedule_reminder") =>
                  ReminderJobId(req[r].tid) \in DOMAIN jobs'
      ]_vars

\* C25: reschedule_reminder is a cancel call followed by a schedule call: the
\* step in which its cancel gets through leaves the task without job, with
\* the coroutine at its schedule call; and when that schedule call fails, the
\* step changes no job (the job that was cancelled is not put back) and the
\* coroutine ends with DaprError.
C25_RescheduleIsNotAtomic ==
    [][ \A r \in Reqs :
            /\ (req[r].pc = "idle" /\ req'[r].op = "reschedule_reminder"
                   /\ req'[r].pc # "idle") =>
                  /\ req'[r].pc = "cancelled"
                  /\ ReminderJobId(req'[r].tid) \notin DOMAIN jobs'
            /\ (req[r].op = "reschedule_reminder" /\ req[r].pc = "cancelled"
                   /\ req'[r] # req[r]) =>
                  /\ Ends(r)
                  /\ \/ resp'.result = Ok
                     \/ /\ resp'.result = DaprError
                        /\ jobs' = jobs
            /\ (req[r].op = "reschedule_reminder" /\ req[r].pc = "cancelled"
                   /\ req'[r] = req[r]) =>
                  (ReminderJobId(req[r].tid) \in DOMAIN jobs' =>
                      \/ ReminderJobId(req[r].tid) \in DOMAIN jobs
                      \/ \E c \in ReminderCalls : ScheduleSucceeds(req[r].tid, c[1]))
      ]_vars

\* the one call made since task 1 had its job is a reschedule_reminder for
\* task 1 that ended with DaprError, and the job is gone: its cancel call got
\* through and its schedule call failed
C25_Witness ==
    /\ nops = 1
    /\ resp.op = "reschedule_reminder"
    /\ resp.tid = 1
    /\ resp.result = DaprError
    /\ jobs = <<>>
    /\ \A r \in Reqs : req[r].pc = "idle"

\* the errors a call to the sidecar ends with
DaprErrors == {DaprError, DaprStatusError}

\* C26: a handler makes each call once. Its step at the commit or at the
\* refresh either gets on or ends it with the error of the store; its step at
\* publish_task_event either puts one message on the lifecycle topic and
\* returns, or ends it with DaprError and no message; the schedule step of
\* reschedule_reminder either sets the job and returns, or ends with DaprError
\* and no job changed; a schedule_reminder, cancel_reminder or the cancel step
\* of reschedule_reminder that fails ends with DaprError and no job changed;
\* and no step puts more than one message on a topic.
C26_NoRetries ==
    [][ /\ \A r \in Reqs :
              /\ (req[r].pc = "fetched" /\ req'[r] # req[r]) =>
                    \/ req'[r].pc = "committed"
                    \/ /\ Ends(r)
                       /\ resp'.result \in {StoreError, IntegrityError}
                       /\ UNCHANGED <<tasks, tasktags, topics, jobs>>
              /\ (req[r].pc = "committed" /\ req[r].op \in {"update", "complete"}
                     /\ req'[r] # req[r]) =>
                    \/ req'[r].pc = "refreshed"
                    \/ /\ Ends(r)
                       /\ resp'.result = StoreError
                       /\ UNCHANGED <<tasks, tasktags, topics, jobs>>
              /\ (req[r].pc = "refreshed" /\ req'[r] # req[r]) =>
                    /\ Ends(r)
                    /\ \/ /\ resp'.result = Ok
                          /\ Len(Lifecycle') = Len(Lifecycle) + 1
                       \/ /\ resp'.result = DaprError
                          /\ topics' = topics
              /\ (req[r].pc = "cancelled" /\ req'[r] # req[r]) =>
                    /\ Ends(r)
                    /\ \/ /\ resp'.result = Ok
                          /\ ReminderJobId(req[r].tid) \in DOMAIN jobs'
                       \/ /\ resp'.result = DaprError
                          /\ jobs' = jobs
        /\ (nops' = nops + 1 /\ req' = req
               /\ resp'.op \in {"schedule_reminder", "cancel_reminder",
                                "reschedule_reminder"}
               /\ resp'.result # Ok) =>
              /\ resp'.result \in DaprErrors
              /\ jobs' = jobs
        /\ \A t \in Topics : Len(topics'[t]) <= Len(topics[t]) + 1
      ]_vars

\* the publish of an update_task has failed: the handler ended with DaprError,
\* its commit stands and no second message was tried
C26_Witness ==
    /\ nops = 1
    /\ resp.op = "update"
    /\ resp.result = DaprError
    /\ tasks[1].title = "b"
    /\ Len(Lifecycle) = 1
    /\ \A r \in Reqs : req[r].pc = "idle"

\* a list_tasks call returns in this step: resp' holds its arguments and the
\* rows it returns
ListReturns ==
    /\ nops' = nops + 1
    /\ req' = req
    /\ resp'.op = "list"
    /\ resp'.result = Ok

\* C27: every task list_tasks returns is a row of the table whose user_id is
\* the caller's and which meets every priority, status, is_recurring and
\* due-date range filter of the query, whatever the search term, the sort and
\* the page.
C27_ListReturnsOwnFilteredTasks ==
    [][ ListReturns =>
            \A k \in DOMAIN resp'.ret :
                LET t == resp'.ret[k] IN
                /\ t.id \in DOMAIN tasks
                /\ t = tasks[t.id]
                /\ t.user_id = resp'.user
                /\ resp'.inp # None =>
                      LET p == resp'.inp[1] IN
                      /\ p.priority # None => t.priority = p.priority[1]
                      /\ p.status # None => t.status = p.status[1]
                      /\ p.is_recurring # None => t.is_recurring = p.is_recurring[1]
                      /\ p.due_date_from # None =>
                            /\ t.due_date # None
                            /\ t.due_date[1] >= p.due_date_from[1]
                      /\ p.due_date_to # None =>
                            /\ t.due_date # None
                            /\ t.due_date[1] <= p.due_date_to[1]
      ]_vars

\* list_tasks has returned rows of u1 for a due-date range, from a table that
\* also holds a row of u2 in the range and rows of u1 outside it
C27_Witness ==
    /\ resp.op = "list"
    /\ resp.result = Ok
    /\ resp.user = "u1"
    /\ resp.inp # None
    /\ resp.inp[1].due_date_from = Some(1)
    /\ resp.inp[1].due_date_to = Some(2)
    /\ Len(resp.ret) >= 2
    /\ \E i \in DOMAIN tasks :
          /\ tasks[i].user_id = "u2"
          /\ tasks[i].due_date = Some(2)
    /\ \E i \in DOMAIN tasks :
          /\ tasks[i].user_id = "u1"
          /\ tasks[i].due_date = Some(0)
    /\ \E i \in DOMAIN tasks :
          /\ tasks[i].user_id = "u1"
          /\ tasks[i].due_date = None

\* The rows `rows` are one page of the rows `sel` in the order of the
\* statement: `limit` rows from position `offset` on (fewer where the rows
\* end), in order, with the rows left out all before or all after them.
IsPage(rows, sel, query_params, offset, limit) ==
    LET ids == {rows[k].id : k \in DOMAIN rows}
        outside == sel \ ids
        rest == IF Cardinality(sel) > offset THEN Cardinality(sel) - offset ELSE 0
    IN  /\ Cardinality(ids) = Len(rows)
        /\ ids \subseteq sel
        /\ \A k \in DOMAIN rows : rows[k] = tasks[rows[k].id]
        /\ Len(rows) = IF limit < rest THEN limit ELSE rest
        /\ \A k \in 1..(Len(rows) - 1) :
              ~OrderedBefore(rows[k + 1], rows[k], query_params)
        /\ Len(rows) > 0 =>
              LET early == {x \in outside :
                              OrderedBefore(tasks[x], rows[Len(rows)], query_params)}
                  late == {x \in outside :
                              OrderedBefore(rows[1], tasks[x], query_params)}
              IN  /\ early \cap late = {}
                  /\ Cardinality(early) <= offset
                  /\ offset <= Cardinality(outside) - Cardinality(late)

\* C28: list_tasks returns one page: never more than 100 tasks, also when it
\* is called without query parameters; and with query parameters at most
\* page_size tasks, those at the positions (page-1)*page_size up to
\* page*page_size-1 of the selected rows in the order of the query.
C28_ListReturnsOnePage ==
    [][ ListReturns =>
            /\ Len(resp'.ret) <= page_size_le
            /\ resp'.inp # None =>
                  LET p == resp'.inp[1] IN
                  /\ Len(resp'.ret) <= p.page_size
                  /\ IsPage(resp'.ret, Selected(resp'.user, resp'.inp), resp'.inp,
                            (p.page - 1) * p.page_size, p.page_size)
      ]_vars

\* C29: no step changes the user_id of a row; a row comes into the table only
\* by the commit of a create_task, with the user_id that create_task was
\* called with and an id no row had before.
C29_UserIdIsImmutable ==
    [][ /\ \A i \in DOMAIN tasks \cap DOMAIN tasks' :
              tasks'[i].user_id = tasks[i].user_id
        /\ \A i \in DOMAIN tasks' \ DOMAIN tasks :
              /\ \E r \in Reqs :
                    /\ req[r].op = "create"
                    /\ req[r].tid = i
                    /\ tasks'[i].user_id = req[r].user
              /\ \A c \in committed : c.id # i
      ]_vars

\* an update_task or complete_task of u1 has returned for a task u1 created,
\* and has changed it
C29_Witness ==
    /\ resp.op \in {"update", "complete"}
    /\ resp.result = Ok
    /\ resp.user = "u1"
    /\ resp.tid \in DOMAIN tasks
    /\ tasks[resp.tid].user_id = "u1"
    /\ tasks[resp.tid].updated_at = 1
    /\ tasks[resp.tid].created_at = 0
    /\ Lifecycle[1].event_type = "created"
    /\ Lifecycle[1].user_id = "u1"

\* a publish_event call gets through in this step: resp' holds its arguments
\* and `e` is the envelope the sidecar has accepted
PublishAccepted(e) ==
    /\ nops' = nops + 1
    /\ req' = req
    /\ resp'.op = "publish_event"
    /\ resp'.result = Ok
    /\ Len(topics'[resp'.inp[1]]) = Len(topics[resp'.inp[1]]) + 1
    /\ e = LastEvent(topics'[resp'.inp[1]])

\* C30 as claimed: the envelope has the event_type of the call and a
\* timestamp, and carries every key of the payload with the payload's value.
C30_EnvelopeCarriesTypeAndPayload ==
    [][ (nops' = nops + 1 /\ req' = req /\ resp'.op = "publish_event"
            /\ resp'.result = Ok) =>
            /\ PublishAccepted(LastEvent(topics'[resp'.inp[1]]))
            /\ LastEvent(topics'[resp'.inp[1]]).event_type = resp'.inp[2]
            /\ "timestamp" \in DOMAIN LastEvent(topics'[resp'.inp[1]])
            /\ \A k \in DOMAIN resp'.inp[3] :
                  LastEvent(topics'[resp'.inp[1]])[k] = resp'.inp[3][k]
      ]_vars

\* C30 as amended: the envelope carries every key of the payload with the
\* payload's value, and besides them event_type and timestamp: the event_type
\* of the call unless the payload has a key event_type, the time of the call
\* unless the payload has a key timestamp.
C30_EnvelopePayloadWins ==
    [][ (nops' = nops + 1 /\ req' = req /\ resp'.op = "publish_event"
            /\ resp'.result = Ok) =>
            /\ PublishAccepted(LastEvent(topics'[resp'.inp[1]]))
            /\ \A t \in Topics \ {resp'.inp[1]} : topics'[t] = topics[t]
            /\ LET e == LastEvent(topics'[resp'.inp[1]])
                   data == resp'.inp[3]
               IN  /\ DOMAIN e = DOMAIN data \cup {"event_type", "timestamp"}
                   /\ \A k \in DOMAIN data : e[k] = data[k]
                   /\ "event_type" \notin DOMAIN data => e.event_type = resp'.inp[2]
                   /\ "timestamp" \notin DOMAIN data =>
                         e.timestamp = <<Isoformat(now), "Z">>
      ]_vars

\* publish_event("task-updates", "updated", {..., "event_type": "deleted"}) got
\* through: the envelope on the topic says "deleted"
C30_Witness ==
    /\ resp.op = "publish_event"
    /\ resp.result = Ok
    /\ resp.inp[1] = kafka_topic_task_updates
    /\ resp.inp[2] = "updated"
    /\ resp.inp[3].event_type = "deleted"
    /\ Len(LiveSync) > 0
    /\ LastEvent(LiveSync).event_type = "deleted"
    /\ LastEvent(LiveSync).task_id = 1
    /\ "timestamp" \in DOMAIN LastEvent(LiveSync)

\* C31: the created event is the first event of its task id on the lifecycle
\* topic: every updated, completed or deleted event has the created event of
\* the same task id before it.
C31_CreatedIsFirstEvent ==
    \A i \in 1..Len(Lifecycle) :
        Lifecycle[i].event_type \in {"updated", "completed", "deleted"} =>
            \E j \in 1..(i - 1) :
                /\ Lifecycle[j].event_type = "created"
                /\ Lifecycle[j].task_id = Lifecycle[i].task_id

\* C32: the deleted event is the last event of its task id on the lifecycle
\* topic: no updated or completed event of the same task id comes after it.
C32_DeletedIsLastEvent ==
    \A i \in 1..Len(Lifecycle) :
        Lifecycle[i].event_type = "deleted" =>
            \A j \in (i + 1)..Len(Lifecycle) :
                ~ /\ Lifecycle[j].event_type \in {"updated", "completed"}
                  /\ Lifecycle[j].task_id = Lifecycle[i].task_id

\* C34: update_task validates no due_date: it never raises
\* TaskValidationError, and an update_task that sets a due_date, a past one
\* too, returns with that due_date committed in the row and with one updated
\* event that carries it.
C34_UpdateDoesNotValidateDueDate ==
    [][ /\ \A r \in Reqs :
              (Ends(r) /\ req[r].op = "update") =>
                  resp'.result.error # "TaskValidationError"
        /\ (BeginsAndEnds /\ resp'.op = "update") =>
              resp'.result.error # "TaskValidationError"
        /\ \A r \in Reqs :
              (/\ Returns(r)
               /\ req[r].op = "update"
               /\ "due_date" \in DOMAIN req[r].inp
               /\ req[r].inp.due_date # None) =>
                  /\ req[r].tid \in DOMAIN tasks'
                  /\ tasks'[req[r].tid].due_date = req[r].inp.due_date
                  /\ resp'.ret.due_date = req[r].inp.due_date
                  /\ Len(Lifecycle') = Len(Lifecycle) + 1
                  /\ LastEvent(Lifecycle').event_type = "updated"
                  /\ LastEvent(Lifecycle').task_id = req[r].tid
                  /\ LastEvent(Lifecycle').task_data.due_date =
                        OptIsoformat(req[r].inp.due_date)
      ]_vars

\* update_task(1, due_date 0) began at time 1 and has returned: the row
\* carries a due_date that was past when the update began
C34_Witness ==
    /\ resp.op = "update"
    /\ resp.result = Ok
    /\ resp.inp = [status |-> Some("pending"), due_date |-> Some(0)]
    /\ resp.ret.updated_at = 1
    /\ nops = 1
    /\ now = 1
    /\ tasks[1].due_date = Some(0)
    /\ tasks[1].updated_at = 1
    /\ LastEvent(Lifecycle).event_type = "updated"
    /\ LastEvent(Lifecycle).task_data.due_date = Isoformat(0)

\* C33: every event on the lifecycle topic is a task event: its event_type is
\* created, updated, completed or deleted, and it carries a task_id.
C33_LifecycleHoldsTaskEventsOnly ==
    \A i \in 1..Len(Lifecycle) :
        /\ Lifecycle[i].event_type \in {"created", "updated", "completed", "deleted"}
        /\ "task_id" \in DOMAIN Lifecycle[i]

\* C36: GET /ready returns (200) with status "healthy" when the database, the
\* sidecar and Kafka are all healthy, and fails with HTTPException 503 when
\* one of them is not; a response it returns says "healthy" exactly when the
\* three dependency statuses are "healthy".
C36_ReadinessFailsWhenUnhealthy ==
    [][ \A r \in Reqs :
            (Ends(r) /\ req[r].op = "readiness_check") =>
                /\ IF /\ req[r].obj.database.status = "healthy"
                      /\ req[r].obj.dapr.status = "healthy"
                      /\ Lifecycle' # Lifecycle
                   THEN resp'.result = Ok /\ resp'.ret.status = "healthy"
                   ELSE resp'.result = HTTPException("503")
                /\ resp'.result = Ok =>
                      (resp'.ret.status = "healthy" <=>
                          \A d \in {"database", "dapr", "kafka"} :
                              resp'.ret.dependencies[d].status = "healthy")
      ]_vars

\* C35: when the shutdown of lifespan has run, it has ended without an
\* exception, the DaprClient holds no client and every client it made is
\* closed, and the engine of the database connection is disposed.
C35_ShutdownClosesClientAndDatabase ==
    [][ (nops' = nops + 1 /\ req' = req /\ resp'.op = "shutdown") =>
            /\ resp'.result = Ok
            /\ dapr_client'._client = None
            /\ \A c \in 1..dapr_client'.made : c \in dapr_client'.closed
            /\ db'.async_engine # None => db'.async_engine[1] \in db'.disposed
            /\ ~db'._initialized
      ]_vars

\* a call of health_check begins in this step, in slot r or ending at once
HealthCheckBegins(r) ==
    \/ req[r].pc = "idle" /\ req'[r].op = "health_check"
    \/ /\ r = "r1"
       /\ nops' = nops + 1
       /\ req' = req
       /\ resp'.op = "health_check"

\* the httpx client the call that begins in this step is given by get_client
ClientOfCall(r) == IF req'[r].op = "health_check" THEN req'[r].obj ELSE resp'.ret

\* C37: the DaprClient holds one httpx client or none. connect() on a
\* DaprClient that holds a client keeps it, on one that holds none makes one; a
\* disconnect() that has returned has closed the client it found and left none
\* held; a call is given the client the DaprClient holds, never none, which is
\* a new open client when the DaprClient held none at the call, as it does
\* after a disconnect.
C37_ClientIsSingleAndReconnects ==
    [][ /\ dapr_client'._client # None =>
              /\ Len(dapr_client'._client) = 1
              /\ dapr_client'._client[1] \in 1..dapr_client'.made
        /\ (nops' = nops + 1 /\ req' = req /\ resp'.op = "connect") =>
              IF dapr_client._client # None
              THEN dapr_client' = dapr_client
              ELSE /\ dapr_client'._client = Some(dapr_client.made + 1)
                   /\ dapr_client'._client[1] \notin dapr_client'.closed
        /\ (nops' = nops + 1 /\ req' = req /\ resp'.op = "disconnect") =>
              /\ dapr_client._client = None
              /\ dapr_client' = dapr_client
        /\ \A r \in Reqs :
              (Ends(r) /\ req[r].op = "disconnect") =>
                  /\ dapr_client'._client = None
                  /\ req[r].obj # None
                  /\ req[r].obj[1] \in dapr_client'.closed
        /\ \A r \in Reqs :
              HealthCheckBegins(r) =>
                  /\ dapr_client'._client # None
                  /\ (resp'.op = "health_check" /\ req' = req) =>
                        resp'.result = RuntimeError
                  /\ (req'[r].op = "health_check" \/ resp'.result = Ok) =>
                        ClientOfCall(r) = dapr_client'._client
                  /\ IF dapr_client._client # None
                     THEN dapr_client' = dapr_client
                     ELSE /\ dapr_client'._client = Some(dapr_client.made + 1)
                          /\ dapr_client'._client[1] \notin dapr_client'.closed
      ]_vars

\* health_check() after a disconnect() that closed client 1 has returned: the
\* call made client 2 and ran on it
C37_Witness ==
    /\ resp.op = "health_check"
    /\ resp.result = Ok
    /\ resp.ret = Some(2)
    /\ dapr_client._client = Some(2)
    /\ dapr_client.made = 2
    /\ dapr_client.closed = {1}
    /\ nops = 2
    /\ \A r \in Reqs : req[r].pc = "idle"

\* the sessions of db that no get_session in flight holds
SessionsOfEndedBlocks ==
    {i \in DOMAIN db.sessions :
        \A r \in Reqs : ~(req[r].op = "get_session" /\ req[r].obj = Some(i))}

\* C38: get_session connects db before it makes the session when db is not
\* initialized (at its first use, and after a disconnect), and makes the
\* session on the engine db then has; when get_session ends, the session is
\* closed; after a block that ran to its end the session is committed and
\* get_session returns, or the commit failed, the session is rolled back and
\* the error raised; after a block that raised, the session is rolled back
\* and the exception of the block raised again.
C38_SessionIsCommittedOrRolledBackAndClosed ==
    [][ /\ \A r \in Reqs :
              (req[r].pc = "idle" /\ req'[r].op = "get_session") =>
                  /\ db'._initialized
                  /\ db'.async_engine # None
                  /\ IF db._initialized
                     THEN db'.async_engine = db.async_engine
                     ELSE /\ db'.async_engine = Some(db.made + 1)
                          /\ db'.async_engine[1] \notin db'.disposed
                  /\ Len(db'.sessions) = Len(db.sessions) + 1
                  /\ req'[r].obj = Some(Len(db'.sessions))
                  /\ db'.sessions[req'[r].obj[1]] =
                        [engine |-> db'.async_engine[1], committed |-> FALSE,
                         rolled_back |-> FALSE, closed |-> FALSE]
        /\ \A r \in Reqs :
              (Ends(r) /\ req[r].op = "get_session") =>
                  LET session == db'.sessions[req[r].obj[1]] IN
                  /\ session.closed
                  /\ IF req[r].inp = Ok
                     THEN \/ /\ resp'.result = Ok
                             /\ session.committed
                             /\ ~session.rolled_back
                          \/ /\ resp'.result = StoreError
                             /\ ~session.committed
                             /\ session.rolled_back
                     ELSE /\ resp'.result = req[r].inp
                          /\ ~session.committed
                          /\ session.rolled_back
        /\ \A i \in SessionsOfEndedBlocks' : db'.sessions[i].closed
      ]_vars

\* a get_session block after db.disconnect() has returned: get_session made
\* engine 2 and the session on it, the block ran to its end, the session is
\* committed and closed
C38_Witness ==
    /\ resp.op = "get_session"
    /\ resp.result = Ok
    /\ resp.inp = Ok
    /\ nops = 2
    /\ db._initialized
    /\ db.async_engine = Some(2)
    /\ db.disposed = {1}
    /\ Len(db.sessions) = 2
    /\ db.sessions[2] = [engine |-> 2, committed |-> TRUE, rolled_back |-> FALSE,
                         closed |-> TRUE]
    /\ \A r \in Reqs : req[r].pc = "idle"

====
